---------------------------- MODULE Spec2Model ----------------------------
(***************************************************************************)
(* A model of the reconciliation engine of eesyDev/data-parser:            *)
(*   name_parser.py  _normalize_value, _match_value, parse_name            *)
(*   comparator.py   merge_by_sku, find_missing, find_price_differences,   *)
(*                   find_name_differences, _parse_weight                  *)
(*   main.py         the guard on the number of loaded sources             *)
(*                                                                         *)
(* Text is a sequence of characters; a character is a one-character string *)
(* ("5", " ", "|"), or a name for a glyph outside ASCII:                    *)
(*   "LDQ" U+201C  "RDQ" U+201D  "DPRIME" U+2033                           *)
(*   "LSQ" U+2018  "RSQ" U+2019  "PRIME"  U+2032                           *)
(*   "ENDASH" U+2013  "EMDASH" U+2014                                      *)
(* Python's None is the string "None" where a value may be absent.         *)
(***************************************************************************)
EXTENDS Integers, Sequences, FiniteSets, TLC

VARIABLES
    \* _normalize_value applied once and then to its own result
    nv_val, nv_once, nv_twice, nv_pc,
    \* _match_value(parsed_val, actual_val)
    parsed_val, actual_val, match_result, mv_pc,
    \* _parse_weight(pw_val)
    pw_val, pw_result, pw_pc,
    \* parse_name(pn_title)
    pn_title, pn_attrs, pn_pc,
    \* main and comparator.compare_all: the loaded sources, the settings of
    \* config.py, the merged table, the tables of the detectors, and the step
    sources, config, merged, missing, price_differences, name_differences, pc,
    \* main: the files of the run, the lines printed about the load, the tables
    \* of find_attribute_differences and compare_name_vs_attributes, the files
    \* written and the grids of build_grid
    files, log, attribute_differences, name_vs_attrs, reports, grids,
    \* the status of one cell of the grid (grid_view.py lines 224-236)
    cell_attr, cell_vals, cell_status, cell_pc

normVars  == <<nv_val, nv_once, nv_twice, nv_pc>>
matchVars == <<parsed_val, actual_val, match_result, mv_pc>>
weightVars == <<pw_val, pw_result, pw_pc>>
nameVars  == <<pn_title, pn_attrs, pn_pc>>
compareVars == <<sources, config, merged, missing, price_differences, name_differences, pc>>
runVars   == <<files, log, attribute_differences, name_vs_attrs, reports, grids>>
cellVars  == <<cell_attr, cell_vals, cell_status, cell_pc>>
vars      == <<normVars, matchVars, weightVars, nameVars, compareVars, runVars, cellVars>>

None == "None"

---------------------------------------------------------------------------
(* Characters and the str methods the code uses                            *)

Digits == {"0", "1", "2", "3", "4", "5", "6", "7", "8", "9"}
Whitespace == {" ", "\t", "\n", "\r", "\f"}

IsDigit(c) == c \in Digits
IsSpace(c) == c \in Whitespace

UpperLetters == <<"A", "B", "C", "D", "E", "F", "G", "H", "I", "J", "K", "L", "M",
                  "N", "O", "P", "Q", "R", "S", "T", "U", "V", "W", "X", "Y", "Z">>
LowerLetters == <<"a", "b", "c", "d", "e", "f", "g", "h", "i", "j", "k", "l", "m",
                  "n", "o", "p", "q", "r", "s", "t", "u", "v", "w", "x", "y", "z">>

LowerChar(c) ==
    IF \E i \in 1..26 : UpperLetters[i] = c
    THEN LowerLetters[CHOOSE i \in 1..26 : UpperLetters[i] = c]
    ELSE c

\* the characters of a string written as a TLA+ string
RECURSIVE CharsFrom(_, _)
CharsFrom(str, i) ==
    IF i > Len(str) THEN <<>> ELSE <<SubSeq(str, i, i)>> \o CharsFrom(str, i + 1)
Chars(str) == CharsFrom(str, 1)

\* str.lower()
Lower(s) == [i \in 1..Len(s) |-> LowerChar(s[i])]

SetMin(S) == CHOOSE x \in S : \A y \in S : x <= y
SetMax(S) == CHOOSE x \in S : \A y \in S : x >= y

\* str.strip()
Strip(s) ==
    LET keep == {i \in 1..Len(s) : ~IsSpace(s[i])}
    IN  IF keep = {} THEN <<>> ELSE SubSeq(s, SetMin(keep), SetMax(keep))

\* str.replace(old, new) for a single character old and a single character new
ReplaceChar(s, old, new) == [i \in 1..Len(s) |-> IF s[i] = old THEN new ELSE s[i]]

\* str.replace(c, '') for every c of a set of characters
RemoveChars(s, cs) == SelectSeq(s, LAMBDA c : c \notin cs)

\* s[i:].startswith(pat)
StartsAt(s, i, pat) ==
    /\ i + Len(pat) - 1 <= Len(s)
    /\ \A k \in 1..Len(pat) : s[i + k - 1] = pat[k]

EndsWith(s, pat) == Len(pat) <= Len(s) /\ StartsAt(s, Len(s) - Len(pat) + 1, pat)

\* pat in s
Contains(s, pat) == \E i \in 1..(Len(s) - Len(pat) + 1) : StartsAt(s, i, pat)

\* s.split(sep) for a single character sep: the parts between the separators
RECURSIVE SplitFrom(_, _, _, _)
SplitFrom(s, sep, i, cur) ==
    IF i > Len(s) THEN <<cur>>
    ELSE IF s[i] = sep THEN <<cur>> \o SplitFrom(s, sep, i + 1, <<>>)
    ELSE SplitFrom(s, sep, i + 1, Append(cur, s[i]))

Split(s, sep) == SplitFrom(s, sep, 1, <<>>)

\* the first index at or after i that holds no whitespace (Len(s) + 1 if none)
RECURSIVE SkipSpace(_, _)
SkipSpace(s, i) ==
    IF i <= Len(s) /\ IsSpace(s[i]) THEN SkipSpace(s, i + 1) ELSE i

\* the first index of the whitespace run that ends right before index i
RECURSIVE SpaceRunStart(_, _)
SpaceRunStart(s, i) ==
    IF i > 1 /\ IsSpace(s[i - 1]) THEN SpaceRunStart(s, i - 1) ELSE i

---------------------------------------------------------------------------
(* name_parser._normalize_value                                            *)

\* line 311-314: typographic quotes, primes and dashes to ASCII
AsciiGlyph(c) ==
    CASE c \in {"LDQ", "RDQ", "DPRIME"} -> "\""
      [] c \in {"LSQ", "RSQ", "PRIME"}  -> "'"
      [] c \in {"ENDASH", "EMDASH"}     -> "-"
      [] OTHER                          -> c

NormalizeGlyphs(s) == [i \in 1..Len(s) |-> AsciiGlyph(s[i])]

\* the alternatives of the unit group of line 316
Units == {<<"m", "m">>, <<"t", "o", "n">>, <<"t", "o", "n", "s">>,
          <<"l", "b">>, <<"l", "b", "s">>, <<"i", "n">>,
          <<"i", "n", "c", "h", "e", "s">>, <<"\"">>}

\* line 316: re.sub(r'\s*(mm|tons?|lbs?|in|inches|")\s*$', '', s).  s comes from
\* strip(), so it ends in no whitespace and a match is whitespace* unit at the
\* very end; the regex takes the leftmost start, and nothing is left to match
\* after it.  The unit need not be a separate word.
StripTrailingUnit(s) ==
    LET starts == {SpaceRunStart(s, Len(s) - Len(u) + 1) : u \in {v \in Units : EndsWith(s, v)}}
    IN  IF starts = {} THEN s ELSE SubSeq(s, 1, SetMin(starts) - 1)

\* line 318: re.sub(r'(\d)\s*mm', r'\1mm', s), matches taken left to right
RECURSIVE CollapseMmFrom(_, _)
CollapseMmFrom(s, i) ==
    IF i > Len(s) THEN <<>>
    ELSE IF IsDigit(s[i]) /\ StartsAt(s, SkipSpace(s, i + 1), <<"m", "m">>)
         THEN <<s[i], "m", "m">> \o CollapseMmFrom(s, SkipSpace(s, i + 1) + 2)
         ELSE <<s[i]>> \o CollapseMmFrom(s, i + 1)

CollapseMm(s) == CollapseMmFrom(s, 1)

\* line 319: re.sub(r'\s+', ' ', s)
RECURSIVE CollapseSpaceFrom(_, _)
CollapseSpaceFrom(s, i) ==
    IF i > Len(s) THEN <<>>
    ELSE IF IsSpace(s[i]) THEN <<" ">> \o CollapseSpaceFrom(s, SkipSpace(s, i))
    ELSE <<s[i]>> \o CollapseSpaceFrom(s, i + 1)

CollapseSpace(s) == CollapseSpaceFrom(s, 1)

\* line 321: s.replace('\\,', ','), occurrences taken left to right
RECURSIVE UnescapeCommaFrom(_, _)
UnescapeCommaFrom(s, i) ==
    IF i > Len(s) THEN <<>>
    ELSE IF StartsAt(s, i, <<"\\", ",">>) THEN <<",">> \o UnescapeCommaFrom(s, i + 2)
    ELSE <<s[i]>> \o UnescapeCommaFrom(s, i + 1)

UnescapeComma(s) == UnescapeCommaFrom(s, 1)

\* line 323: s.rstrip('/') removes every trailing slash
RStripSlash(s) ==
    LET keep == {i \in 1..Len(s) : s[i] # "/"}
    IN  IF keep = {} THEN <<>> ELSE SubSeq(s, 1, SetMax(keep))

_normalize_value(val) ==
    IF val = <<>> THEN <<>>
    ELSE LET s1 == NormalizeGlyphs(Lower(Strip(val)))
             s2 == StripTrailingUnit(s1)
             s3 == CollapseSpace(CollapseMm(s2))
             s4 == RemoveChars(UnescapeComma(s3), {",", "\"", "'"})
         IN  RStripSlash(s4)

---------------------------------------------------------------------------
(* name_parser._match_value                                                *)

Match == "Match"                \* True
Mismatch == "Mismatch"          \* False
Incomparable == None            \* None: can't compare
ValueError == "ValueError"      \* an exception leaving the function

IsNumChar(c) == IsDigit(c) \/ c = "."

\* the end of the run of [\d.] characters that starts at i
RECURSIVE NumRunEnd(_, _)
NumRunEnd(s, i) ==
    IF i + 1 <= Len(s) /\ IsNumChar(s[i + 1]) THEN NumRunEnd(s, i + 1) ELSE i

\* re.findall(r'[\d.]+', s): the maximal runs of digits and dots, left to right
RECURSIVE NumTokensFrom(_, _)
NumTokensFrom(s, i) ==
    IF i > Len(s) THEN <<>>
    ELSE IF IsNumChar(s[i])
         THEN <<SubSeq(s, i, NumRunEnd(s, i))>> \o NumTokensFrom(s, NumRunEnd(s, i) + 1)
         ELSE NumTokensFrom(s, i + 1)

NumTokens(s) == NumTokensFrom(s, 1)

\* float(tok) of a run of digits and dots raises ValueError unless the run has a
\* digit and at most one dot
FloatOk(tok) ==
    /\ \E i \in 1..Len(tok) : IsDigit(tok[i])
    /\ Cardinality({i \in 1..Len(tok) : tok[i] = "."}) <= 1

DigitVal(c) == CHOOSE d \in 0..9 : <<"0", "1", "2", "3", "4", "5", "6", "7", "8", "9">>[d + 1] = c

RECURSIVE DigitsVal(_)
DigitsVal(ds) ==
    IF ds = <<>> THEN 0 ELSE 10 * DigitsVal(SubSeq(ds, 1, Len(ds) - 1)) + DigitVal(ds[Len(ds)])

RECURSIVE Pow10(_)
Pow10(n) == IF n = 0 THEN 1 ELSE 10 * Pow10(n - 1)

\* float(tok) as the exact decimal num / 10^dec
Float(tok) ==
    LET dots == {i \in 1..Len(tok) : tok[i] = "."}
    IN  [num |-> DigitsVal(SelectSeq(tok, IsDigit)),
         dec |-> IF dots = {} THEN 0 ELSE Len(tok) - SetMax(dots)]

Abs(x) == IF x < 0 THEN -x ELSE x

\* line 413: abs(float(x) - float(y)) < 0.1, on the exact decimals
NearlyEqual(x, y) ==
    10 * Abs(x.num * Pow10(y.dec) - y.num * Pow10(x.dec)) < Pow10(x.dec + y.dec)

\* lines 376-390: the sets of interchangeable normalized phrases
synonyms == <<
    {<<"e", "x", "c", "a", "v", "a", "t", "o", "r", "s">>,
     <<"e", "x", "c", "a", "v", "a", "t", "o", "r">>,
     <<"e", "x", "c", "a", "v", "a", "t", "o", "r", " ", "a", "t", "t", "a", "c", "h", "m", "e", "n", "t">>},
    {<<"m", "i", "n", "i", " ", "e", "x", "c", "a", "v", "a", "t", "o", "r", "s">>,
     <<"m", "i", "n", "i", " ", "e", "x", "c", "a", "v", "a", "t", "o", "r">>,
     <<"m", "i", "n", "i", " ", "e", "x", "c", "a", "v", "a", "t", "o", "r", " ", "a", "t", "t", "a", "c", "h", "m", "e", "n", "t">>},
    {<<"s", "k", "i", "d", " ", "s", "t", "e", "e", "r">>,
     <<"s", "k", "i", "d", " ", "s", "t", "e", "e", "r", " ", "a", "t", "t", "a", "c", "h", "m", "e", "n", "t">>,
     <<"s", "k", "i", "d", " ", "s", "t", "e", "e", "r", " ", "l", "o", "a", "d", "e", "r">>},
    {<<"p", "i", "n", " ", "o", "n">>,
     <<"p", "i", "n", " ", "o", "n", " ", "s", "t", "y", "l", "e">>,
     <<"p", "i", "n", " ", "o", "n", " ", "c", "o", "u", "p", "l", "e", "r">>,
     <<"p", "i", "n", " ", "o", "n", " ", "s", "t", "y", "l", "e", " ", "c", "o", "u", "p", "l", "e", "r">>,
     <<"n", "o", " ", "q", "u", "i", "c", "k", " ", "c", "o", "u", "p", "l", "e", "r", " ", "p", "i", "n", " ", "o", "n", " ", "c", "o", "u", "p", "l", "e", "r">>,
     <<"b", "a", "c", "k", "h", "o", "e", " ", "p", "i", "n", " ", "o", "n", " ", "s", "t", "y", "l", "e">>,
     <<"b", "a", "c", "k", "h", "o", "e", " ", "p", "i", "n", " ", "o", "n", " ", "c", "o", "u", "p", "l", "e", "r">>,
     <<"b", "o", "l", "t", "-", "o", "n", " ", "a", "d", "a", "p", "t", "e", "r">>},
    {<<"b", "o", "b", "c", "a", "t", " ", "x", "-", "c", "h", "a", "n", "g", "e", " ", "c", "o", "u", "p", "l", "e", "r">>,
     <<"b", "o", "b", "c", "a", "t", " ", "x", "-", "c", "h", "a", "n", "g", "e">>,
     <<"b", "o", "b", "c", "a", "t", " ", "s", "t", "y", "l", "e">>,
     <<"b", "o", "b", "c", "a", "t", " ", "x", "-", "c", "h", "a", "n", "g", "e", " ", "s", "t", "y", "l", "e">>},
    {<<"j", "o", "h", "n", " ", "d", "e", "e", "r", "e", " ", "w", "e", "d", "g", "e", " ", "l", "o", "c", "k", " ", "c", "o", "u", "p", "l", "e", "r">>,
     <<"j", "o", "h", "n", " ", "d", "e", "e", "r", "e", " ", "w", "e", "d", "g", "e", " ", "l", "o", "c", "k">>,
     <<"j", "o", "h", "n", " ", "d", "e", "e", "r", "e", " ", "s", "t", "y", "l", "e">>,
     <<"j", "d", " ", "w", "e", "d", "g", "e", " ", "l", "o", "c", "k">>,
     <<"d", "e", "e", "r", "e", " ", "w", "e", "d", "g", "e", " ", "l", "o", "c", "k", " ", "c", "o", "u", "p", "l", "e", "r">>,
     <<"d", "e", "e", "r", "e", " ", "s", "t", "y", "l", "e">>},
    {<<"k", "u", "b", "o", "t", "a", " ", "w", "e", "d", "g", "e", " ", "l", "o", "c", "k", " ", "c", "o", "u", "p", "l", "e", "r">>,
     <<"k", "u", "b", "o", "t", "a", " ", "w", "e", "d", "g", "e", " ", "l", "o", "c", "k">>,
     <<"k", "u", "b", "o", "t", "a", " ", "s", "t", "y", "l", "e">>,
     <<"k", "u", "b", "o", "t", "a", " ", "w", "e", "d", "g", "e", " ", "s", "t", "y", "l", "e">>,
     <<"k", "u", "b", "o", "t", "a", " ", "w", "e", "d", "g", "e", " ", "l", "o", "c", "k", " ", "s", "t", "y", "l", "e">>},
    {<<"c", "a", "t", " ", "p", "i", "n", " ", "g", "r", "a", "b", "b", "e", "r", " ", "c", "o", "u", "p", "l", "e", "r">>,
     <<"c", "a", "t", " ", "p", "i", "n", " ", "g", "r", "a", "b", "b", "e", "r">>,
     <<"c", "a", "t", " ", "p", "i", "n", " ", "g", "r", "a", "b", "b", "e", "r", " ", "s", "t", "y", "l", "e">>},
    {<<"d", "u", "a", "l", " ", "l", "o", "c", "k", " ", "h", "y", "d", "r", "a", "u", "l", "i", "c", " ", "q", "u", "i", "c", "k", " ", "c", "o", "u", "p", "l", "e", "r">>,
     <<"d", "u", "a", "l", " ", "l", "o", "c", "k", " ", "h", "q", "c">>,
     <<"d", "u", "a", "l", " ", "l", "o", "c", "k", " ", "c", "o", "u", "p", "l", "e", "r">>}
>>

InSameSynonymSet(p, a) == \E k \in 1..Len(synonyms) : p \in synonyms[k] /\ a \in synonyms[k]

\* lines 395-402: the second value holds several values separated by ','; a
\* part that matches ends the function, otherwise the later rules go on
MatchCommaList(p, a) ==
    LET split == Split(a, ",")
        parts == [k \in 1..Len(split) |-> _normalize_value(Strip(split[k]))]
    IN  \E k \in 1..Len(parts) : parts[k] = p \/ InSameSynonymSet(p, parts[k])

\* lines 404-415: numeric tokens; "pass" stands for going on to the next rule
MatchNumbers(p, a) ==
    LET p_nums == NumTokens(p)
        a_nums == NumTokens(a)
    IN  IF p_nums = <<>> \/ a_nums = <<>> THEN "pass"
        ELSE IF p_nums = a_nums THEN Match
        ELSE IF Len(p_nums) = 1 /\ Len(a_nums) = 1
             THEN IF FloatOk(p_nums[1]) /\ FloatOk(a_nums[1])
                  THEN IF NearlyEqual(Float(p_nums[1]), Float(a_nums[1])) THEN Match ELSE Mismatch
                  ELSE "pass"   \* except ValueError: pass
        ELSE "pass"

\* the rules after the dual-value rule without the containment rule of lines 416-418
MatchLaterRules_NoContainment(p, a) ==
    IF InSameSynonymSet(p, a) THEN Match
    ELSE IF Contains(a, <<",">>) /\ MatchCommaList(p, a) THEN Match
    ELSE IF MatchNumbers(p, a) # "pass" THEN MatchNumbers(p, a)
    ELSE Mismatch

\* lines 375-419: the rules after the dual-value rule
MatchLaterRules(p, a) ==
    IF InSameSynonymSet(p, a) THEN Match
    ELSE IF Contains(a, <<",">>) /\ MatchCommaList(p, a) THEN Match
    ELSE IF MatchNumbers(p, a) # "pass" THEN MatchNumbers(p, a)
    ELSE IF Contains(a, p) \/ Contains(p, a) THEN Match
    ELSE Mismatch

\* MatchDualValue with the final "return False" lost: the later rules go on
MatchDualValue_FallThrough(parsed, a) ==
    LET split == Split(parsed, "|")
        parts == [k \in 1..Len(split) |-> _normalize_value(split[k])]
        a_nums == NumTokens(a)
    IN  IF \E k \in 1..Len(parts) :
               \/ parts[k] = a
               \/ NumTokens(parts[k]) # <<>> /\ a_nums # <<>> /\ NumTokens(parts[k]) = a_nums
        THEN Match ELSE MatchLaterRules(_normalize_value(parsed), a)

\* lines 364-374: the first value holds several values separated by '|'
MatchDualValue(parsed, a) ==
    LET split == Split(parsed, "|")
        parts == [k \in 1..Len(split) |-> _normalize_value(split[k])]
        a_nums == NumTokens(a)
    IN  IF \E k \in 1..Len(parts) :
               \/ parts[k] = a
               \/ NumTokens(parts[k]) # <<>> /\ a_nums # <<>> /\ NumTokens(parts[k]) = a_nums
        THEN Match ELSE Mismatch

\* _match_value without the direct match of line 361
_match_value_NoDirectMatch(parsed, actual) ==
    LET p == _normalize_value(parsed)
        a == _normalize_value(actual)
    IN  IF p = <<>> \/ a = <<>> THEN Incomparable
        ELSE IF Contains(p, <<"|">>) THEN MatchDualValue(parsed, a)
        ELSE MatchLaterRules(p, a)

\* _match_value with line 358 testing the first value only
_match_value_ActualUnchecked(parsed, actual) ==
    LET p == _normalize_value(parsed)
        a == _normalize_value(actual)
    IN  IF p = <<>> THEN Incomparable
        ELSE IF p = a THEN Match
        ELSE IF Contains(p, <<"|">>) THEN MatchDualValue(parsed, a)
        ELSE MatchLaterRules(p, a)

_match_value(parsed, actual) ==
    LET p == _normalize_value(parsed)
        a == _normalize_value(actual)
    IN  IF p = <<>> \/ a = <<>> THEN Incomparable
        ELSE IF p = a THEN Match
        ELSE IF Contains(p, <<"|">>) THEN MatchDualValue(parsed, a)
        ELSE MatchLaterRules(p, a)

---------------------------------------------------------------------------
(* comparator._parse_weight                                                *)

\* round(num / 10^dec, 2) in hundredths.  Python rounds the binary double; that
\* is the decimal rounded half to even except where the decimal lies exactly
\* halfway, which the double then decides.
RoundHundredths(num, dec) ==
    IF dec <= 2 THEN num * Pow10(2 - dec)
    ELSE LET q == num \div Pow10(dec - 2)
             r == num % Pow10(dec - 2)
             half == 5 * Pow10(dec - 3)
         IN  IF r > half \/ (r = half /\ q % 2 = 1) THEN q + 1 ELSE q

\* whether num / 10^dec lies exactly halfway between two hundredths
IsRoundingTie(num, dec) == dec > 2 /\ num % Pow10(dec - 2) = 5 * Pow10(dec - 3)

\* line 184: the factor 2.20462 as KgToLbNum / 10^KgToLbDec
KgToLbNum == 220462
KgToLbDec == 5

\* the pounds of _parse_weight in hundredths, without the kg conversion
_parse_weight_NoKg(val) ==
    IF val = <<>> THEN None
    ELSE LET s == RemoveChars(Lower(Strip(val)), {","})
             toks == NumTokens(s)
         IN  IF toks = <<>> THEN None
             ELSE IF ~FloatOk(toks[1]) THEN None
             ELSE <<RoundHundredths(Float(toks[1]).num, Float(toks[1]).dec)>>

\* lines 173-188; the result is None or <<w>>, w the weight in hundredths of a
\* pound
_parse_weight(val) ==
    IF val = <<>> THEN None
    ELSE LET s == RemoveChars(Lower(Strip(val)), {","})
             toks == NumTokens(s)
         IN  IF toks = <<>> THEN None                \* no match: return None
             ELSE IF ~FloatOk(toks[1]) THEN None     \* except ValueError: pass
             ELSE LET w == Float(toks[1])
                  IN  IF Contains(s, <<"k", "g">>)
                      THEN <<RoundHundredths(w.num * KgToLbNum, w.dec + KgToLbDec)>>
                      ELSE <<RoundHundredths(w.num, w.dec)>>

---------------------------------------------------------------------------
(* name_parser.parse_name                                                  *)

\* line 33: the glyphs after the size: ", U+201C, U+201D, U+2033
QuoteGlyphs == {"\"", "LDQ", "RDQ", "DPRIME"}

\* the end of the run of digits that starts at i (i - 1 if s[i] is no digit)
RECURSIVE DigitRunEnd(_, _)
DigitRunEnd(s, i) ==
    IF i <= Len(s) /\ IsDigit(s[i]) THEN DigitRunEnd(s, i + 1) ELSE i - 1

\* the end of the match of \d+(?:\.\d+)? at the start of s, 0 if there is none;
\* both runs are greedy, and a shorter run is followed by a digit, so the
\* characters after the longest match decide
LeadingNumberEnd(s) ==
    LET e1 == DigitRunEnd(s, 1)
        e2 == IF e1 + 1 <= Len(s) /\ s[e1 + 1] = "." THEN DigitRunEnd(s, e1 + 2) ELSE e1
    IN  IF e1 = 0 THEN 0 ELSE IF e2 > e1 + 1 THEN e2 ELSE e1

\* the size rule with the quote glyph optional: ^(\d+(?:\.\d+)?)["...]?\s
BucketSize_QuoteOptional(title) ==
    LET e == LeadingNumberEnd(title)
        q == IF e + 1 <= Len(title) /\ title[e + 1] \in QuoteGlyphs THEN e + 1 ELSE e
    IN  IF e > 0 /\ q + 1 <= Len(title) /\ IsSpace(title[q + 1])
        THEN Append(SubSeq(title, 1, e), "\"")
        ELSE None

\* lines 33-35: re.match of ^(\d+(?:\.\d+)?)[quote glyph]\s on
\* the stripped title; the value is the number and a straight double quote.
\* With "8.5" not followed by a glyph the regex retries "8" alone, which is then
\* followed by ".", no glyph.
BucketSize(title) ==
    LET e == LeadingNumberEnd(title)
    IN  IF /\ e > 0
           /\ e + 2 <= Len(title)
           /\ title[e + 1] \in QuoteGlyphs
           /\ IsSpace(title[e + 2])
        THEN Append(SubSeq(title, 1, e), "\"")
        ELSE None

\* \s*mm\s*[Pp]in from index j on: the tail of both pin rules (the optional s
\* of "pins?" never decides a match)
MmPinAt(s, j) ==
    LET k  == SkipSpace(s, j)
        k2 == SkipSpace(s, k + 2)
    IN  /\ StartsAt(s, k, <<"m", "m">>)
        /\ k2 <= Len(s)
        /\ s[k2] \in {"P", "p"}
        /\ StartsAt(s, k2 + 1, <<"i", "n">>)

\* line 45: (\d+)\s*mm\s*[|/]\s*(\d+)\s*mm\s*[Pp]ins? matched with its first
\* digit at i; the groups are whole runs of digits, since a shorter run is
\* followed by a digit where the rule wants whitespace, "m" or a separator.
\* The result is <<>> without a match, else <<group 1, group 2>>.
DualPinAt(s, i) ==
    LET e1 == DigitRunEnd(s, i)
        k  == SkipSpace(s, e1 + 1)
        k2 == SkipSpace(s, k + 2)
        k3 == SkipSpace(s, k2 + 1)
        e2 == DigitRunEnd(s, k3)
    IN  IF /\ e1 >= i
           /\ StartsAt(s, k, <<"m", "m">>)
           /\ k2 <= Len(s)
           /\ s[k2] \in {"|", "/"}
           /\ e2 >= k3
           /\ MmPinAt(s, e2 + 1)
        THEN <<SubSeq(s, i, e1), SubSeq(s, k3, e2)>>
        ELSE <<>>

\* line 49: (\d+)\s*mm\s*[Pp]ins? matched with its first digit at i
SinglePinAt(s, i) ==
    LET e1 == DigitRunEnd(s, i)
    IN  IF e1 >= i /\ MmPinAt(s, e1 + 1) THEN <<SubSeq(s, i, e1)>> ELSE <<>>

\* lines 45-51: re.search takes the leftmost match; the dual form wins over
\* the single one wherever it is in the title
PinSize(title) ==
    LET dual   == {i \in 1..Len(title) : DualPinAt(title, i) # <<>>}
        single == {i \in 1..Len(title) : SinglePinAt(title, i) # <<>>}
    IN  IF dual # {}
        THEN LET m == DualPinAt(title, SetMin(dual))
             IN  m[1] \o <<"m", "m", " ", "|", " ">> \o m[2] \o <<"m", "m">>
        ELSE IF single # {}
        THEN SinglePinAt(title, SetMin(single))[1] \o <<"m", "m">>
        ELSE None

\* the words, each followed by \s+ and the next one, from index i on
RECURSIVE WordsAt(_, _, _)
WordsAt(s, i, words) ==
    IF words = <<>> THEN TRUE
    ELSE /\ StartsAt(s, i, Head(words))
         /\ \/ Len(words) = 1
            \/ LET j == i + Len(Head(words))
               IN  /\ j <= Len(s)
                   /\ IsSpace(s[j])
                   /\ WordsAt(s, SkipSpace(s, j), Tail(words))

\* the words of the coupler patterns of lines 71-77, lower case
W_john == Chars("john")
W_deere == Chars("deere")
W_wedge == Chars("wedge")
W_lock == Chars("lock")
W_coupler == Chars("coupler")
W_kubota == Chars("kubota")
W_style == Chars("style")
W_bobcat == Chars("bobcat")
W_x_change == Chars("x-change")
W_xchange == Chars("xchange")
W_cat == Chars("cat")
W_pin == Chars("pin")
W_grabber == Chars("grabber")
W_caterpillar == Chars("caterpillar")
W_dual == Chars("dual")
W_hydraulic == Chars("hydraulic")
W_quick == Chars("quick")
W_spring == Chars("spring")
W_manual == Chars("manual")
W_on == Chars("on")

\* line 71
Coupler_JohnDeere ==
    [alts |-> {<<W_john, W_deere, W_wedge, W_lock, W_coupler>>},
     name |-> Chars("John Deere Wedge Lock Coupler")]

\* line 72
Coupler_KubotaWedge ==
    [alts |-> {<<W_kubota, W_wedge, W_style>>,
              <<W_kubota, W_wedge, W_lock, W_style>>,
              <<W_kubota, W_wedge, W_coupler, W_style>>,
              <<W_kubota, W_wedge, W_lock, W_coupler, W_style>>},
     name |-> Chars("Kubota Wedge Lock Coupler")]

\* line 73
Coupler_BobcatXChange ==
    [alts |-> {<<W_bobcat, W_x_change, W_coupler>>,
              <<W_bobcat, W_xchange, W_coupler>>},
     name |-> Chars("Bobcat X-Change Coupler")]

\* line 74
Coupler_CatPinGrabber ==
    [alts |-> {<<W_cat, W_pin, W_grabber>>,
              <<W_caterpillar, W_pin, W_grabber>>},
     name |-> Chars("Cat Pin Grabber Coupler")]

\* line 75
Coupler_DualLock ==
    [alts |-> {<<W_dual, W_lock, W_hydraulic, W_quick, W_coupler>>},
     name |-> Chars("Dual Lock Hydraulic Quick Coupler")]

\* line 76
Coupler_SpringManual ==
    [alts |-> {<<W_spring, W_manual, W_quick, W_coupler>>},
     name |-> Chars("Spring Manual Quick Coupler")]

\* line 77
Coupler_PinOnStyle ==
    [alts |-> {<<W_pin, W_on, W_style>>},
     name |-> Chars("Pin On Style")]

\* lines 70-78, in the order the code tries them
coupler_patterns ==
    <<Coupler_JohnDeere,
      Coupler_KubotaWedge,
      Coupler_BobcatXChange,
      Coupler_CatPinGrabber,
      Coupler_DualLock,
      Coupler_SpringManual,
      Coupler_PinOnStyle>>

\* re.search of one (?i) pattern: some alternative, somewhere in the title
CouplerMatches(title, p) ==
    \E lowered \in {Lower(title)} :
        \E w \in p.alts : \E i \in 1..Len(lowered) : WordsAt(lowered, i, w)

PinOn == Chars("Pin On")

\* the coupler of the last pattern that matches, not the first
CouplerType_LastMatch(title, pin) ==
    CHOOSE coupler \in
        {IF hits # {} THEN coupler_patterns[SetMax(hits)].name
         ELSE IF pin # None THEN PinOn
         ELSE None :
            hits \in {{k \in 1..Len(coupler_patterns) :
                          CouplerMatches(title, coupler_patterns[k])}}} : TRUE

\* lines 79-86: the first pattern that matches names the coupler; without one,
\* a title that has a pin size is "Pin On"
CouplerType(title, pin) ==
    CHOOSE coupler \in
        {IF hits # {} THEN coupler_patterns[SetMin(hits)].name
         ELSE IF pin # None THEN PinOn
         ELSE None :
            hits \in {{k \in 1..Len(coupler_patterns) :
                          CouplerMatches(title, coupler_patterns[k])}}} : TRUE

\* lines 89-135: the (?i) patterns in the order the code tries them; alts are
\* the texts a pattern stands for, lower case, each a sequence of pieces that
\* ".*" separates (one piece for a pattern without it)
type_patterns ==
    <<[alts |-> {<<Chars("ditching bucket")>>},
       name |-> Chars("Ditching Bucket")],
      [alts |-> {<<Chars("digging bucket")>>},
       name |-> Chars("Digging Bucket")],
      [alts |-> {<<Chars("trenching bucket")>>},
       name |-> Chars("Trenching Bucket")],
      [alts |-> {<<Chars("banana bucket")>>},
       name |-> Chars("Banana Bucket")],
      [alts |-> {<<Chars("claw bucket")>>},
       name |-> Chars("Claw Bucket")],
      [alts |-> {<<Chars("tilt bucket")>>},
       name |-> Chars("Tilt Bucket")],
      [alts |-> {<<Chars("severe duty bucket")>>,
                <<Chars("severe duty skeleton bucket")>>},
       name |-> Chars("Severe Duty Bucket")],
      [alts |-> {<<Chars("heavy duty bucket")>>,
                <<Chars("heavy duty digging bucket")>>,
                <<Chars("heavy duty general purpose bucket")>>},
       name |-> Chars("Heavy Duty Bucket")],
      [alts |-> {<<Chars("skeleton bucket")>>},
       name |-> Chars("Skeleton Bucket")],
      [alts |-> {<<Chars("4 in 1 bucket")>>},
       name |-> Chars("4 in 1 Bucket")],
      [alts |-> {<<Chars("grapple bucket")>>},
       name |-> Chars("Grapple Bucket")],
      [alts |-> {<<Chars("vbottom"), Chars("bucket")>>,
                <<Chars("v-bottom"), Chars("bucket")>>},
       name |-> Chars("V-Bottom Bucket")],
      [alts |-> {<<Chars("ripper tooth")>>},
       name |-> Chars("Ripper Tooth")],
      [alts |-> {<<Chars("hydraulic hammer")>>},
       name |-> Chars("Hydraulic Hammer")],
      [alts |-> {<<Chars("post driver hammer")>>},
       name |-> Chars("Post Driver Hammer")],
      [alts |-> {<<Chars("mechanical thumb")>>},
       name |-> Chars("Mechanical Thumb")],
      [alts |-> {<<Chars("main pin hydraulic thumb")>>,
                <<Chars("qc main pin hydraulic thumb")>>,
                <<Chars("main pin hydraulic progressive thumb")>>,
                <<Chars("qc main pin hydraulic progressive thumb")>>},
       name |-> Chars("Hydraulic Thumb")],
      [alts |-> {<<Chars("mechanical grapple")>>},
       name |-> Chars("Mechanical Grapple")],
      [alts |-> {<<Chars("rotating hydraulic grapple")>>},
       name |-> Chars("Rotating Grapple")],
      [alts |-> {<<Chars("hydraulic quick coupler")>>},
       name |-> Chars("Hydraulic Quick Coupler")],
      [alts |-> {<<Chars("manual quick coupler")>>},
       name |-> Chars("Manual Quick Coupler")],
      [alts |-> {<<Chars("brush rake")>>},
       name |-> Chars("Brush Rake")],
      [alts |-> {<<Chars("root rake")>>},
       name |-> Chars("Root Rake")],
      [alts |-> {<<Chars("bucket rake")>>},
       name |-> Chars("Bucket Rake")],
      [alts |-> {<<Chars("concrete pulverizer")>>},
       name |-> Chars("Concrete Pulverizer")],
      [alts |-> {<<Chars("hydraulic shear")>>},
       name |-> Chars("Hydraulic Shear")],
      [alts |-> {<<Chars("compaction wheel")>>},
       name |-> Chars("Compaction Wheel")],
      [alts |-> {<<Chars("plate compactor")>>},
       name |-> Chars("Plate Compactor")],
      [alts |-> {<<Chars("vibratory roller")>>},
       name |-> Chars("Vibratory Roller")],
      [alts |-> {<<Chars("pallet fork")>>},
       name |-> Chars("Pallet Fork")],
      [alts |-> {<<Chars("angle broom")>>},
       name |-> Chars("Angle Broom")],
      [alts |-> {<<Chars("sweeper broom")>>},
       name |-> Chars("Sweeper Broom")],
      [alts |-> {<<Chars("brush cutter")>>},
       name |-> Chars("Brush Cutter")],
      [alts |-> {<<Chars("auger bit")>>,
                <<Chars("auger drive bit")>>},
       name |-> Chars("Auger Bit")],
      [alts |-> {<<Chars("rock auger bit")>>},
       name |-> Chars("Rock Auger Bit")],
      [alts |-> {<<Chars("bolton mount")>>,
                <<Chars("bolt-on mount")>>},
       name |-> Chars("Bolt-On Mount")],
      [alts |-> {<<Chars("aux hydraulic piping")>>},
       name |-> Chars("Aux Hydraulic Piping Kit")],
      [alts |-> {<<Chars("bucket pin")>>},
       name |-> Chars("Bucket Pin")],
      [alts |-> {<<Chars("bucket shim")>>},
       name |-> Chars("Bucket Shim")],
      [alts |-> {<<Chars("bucket tooth")>>},
       name |-> Chars("Bucket Tooth")],
      [alts |-> {<<Chars("side cutter")>>},
       name |-> Chars("Side Cutter")],
      [alts |-> {<<Chars("tooth retainer")>>},
       name |-> Chars("Tooth Retainer")],
      [alts |-> {<<Chars("tooth adapter")>>},
       name |-> Chars("Tooth Adapter")],
      [alts |-> {<<Chars("tooth pin")>>},
       name |-> Chars("Tooth Pin")],
      [alts |-> {<<Chars("trencher")>>},
       name |-> Chars("Trencher")]>>

\* the pieces from index i on, in order, with no line break between two of
\* them ("." matches no line break)
RECURSIVE PiecesAt(_, _, _)
PiecesAt(s, i, pieces) ==
    /\ StartsAt(s, i, Head(pieces))
    /\ \/ Len(pieces) = 1
       \/ \E j \in (i + Len(Head(pieces)))..Len(s) :
              /\ \A k \in (i + Len(Head(pieces)))..(j - 1) : s[k] # "\n"
              /\ PiecesAt(s, j, Tail(pieces))

\* re.search of one (?i) pattern of type_patterns
TypeMatches(lowered, p) ==
    \E alt \in p.alts : \E i \in 1..Len(lowered) : PiecesAt(lowered, i, alt)

\* the product type of the last pattern that matches, not the first
ProductType_LastMatch(title) ==
    CHOOSE type \in
        {IF hits # {} THEN type_patterns[SetMax(hits)].name ELSE None :
            hits \in {{k \in 1..Len(type_patterns) : TypeMatches(lowered, type_patterns[k])} :
                         lowered \in {Lower(title)}}} : TRUE

\* lines 136-139: the first pattern that matches names the product type
ProductType(title) ==
    CHOOSE type \in
        {IF hits # {} THEN type_patterns[SetMin(hits)].name ELSE None :
            hits \in {{k \in 1..Len(type_patterns) : TypeMatches(lowered, type_patterns[k])} :
                         lowered \in {Lower(title)}}} : TRUE

\* the labels of the result that are modelled, in the order the code sets
\* them; a label that is not set is None.  The titles of the model carry
\* none of the other labels (a diameter, a carrier weight class, a hex size,
\* shim dimensions, a length, a machine the product fits).
ParsedLabelOrder == <<"Bucket Size", "Pin Size", "Coupler Type", "Product Type">>
ParsedLabels == {ParsedLabelOrder[i] : i \in 1..Len(ParsedLabelOrder)}

\* lines 18-170 for the labels of ParsedLabels; {} is every label None
parse_name(title) ==
    IF title = <<>> THEN [l \in ParsedLabels |-> None]
    ELSE CHOOSE attrs \in
             {[l \in ParsedLabels |->
                  CASE l = "Bucket Size"  -> BucketSize(t)
                    [] l = "Pin Size"     -> PinSize(t)
                    [] l = "Coupler Type" -> CouplerType(t, PinSize(t))
                    [] l = "Product Type" -> ProductType(t)] : t \in {Strip(title)}} : TRUE

---------------------------------------------------------------------------
(* comparator: the merged table and the detectors                          *)
(*                                                                         *)
(* sources maps the name of each loaded source to its rows, in order.  A   *)
(* row is [sku, product_name, price, sale_price, category, status].  A     *)
(* price is <<>> (None, NaN in the DataFrame) or <<p>>, p in thousandths.   *)
(* A name is a text; an absent name or status in the merged table is None.  *)
(* The columns name_S, price_S, ..., in_S of a merged row are the fields of *)
(* row.cell[S].                                                            *)

\* loaders.load_all fills the dict in this order, and list(sources.keys())
\* keeps it
SourceOrder == <<"zoho", "website", "google">>
SourceSet == {"zoho", "website", "google"}

NaN == <<>>
EmptySku == ""
EmptyText == <<>>

\* the identifiers of the model in ascending order, as sorted() orders them
SkuOrder == <<"A", "B", "SKU-100">>

\* list(sources.keys())
SourceNames(src) == SelectSeq(SourceOrder, LAMBDA s : s \in DOMAIN src)

SeqToSet(q) == {q[i] : i \in 1..Len(q)}

\* the truth value of a name cell: None and '' are false
Truthy(v) == IF v = None THEN FALSE ELSE v # EmptyText

\* the truth value of a status cell, a word: None and '' are false
TruthyWord(v) == v # None /\ v # ""

\* MergedCell taking the last of the source's rows with the identifier
MergedCell_LastWins(df, sku) ==
    LET match == SelectSeq(df, LAMBDA r : r.sku = sku)
    IN  IF match # <<>>
        THEN [in |-> TRUE, name |-> match[Len(match)].product_name,
              price |-> match[Len(match)].price,
              sale_price |-> match[Len(match)].sale_price,
              category |-> match[Len(match)].category,
              status |-> match[Len(match)].status]
        ELSE [in |-> FALSE, name |-> None, price |-> NaN, sale_price |-> NaN,
              category |-> None, status |-> None]

\* lines 32-48: the columns of one source in the merged row of sku
MergedCell(df, sku) ==
    LET match == SelectSeq(df, LAMBDA r : r.sku = sku)
    IN  IF match # <<>>
        THEN [in |-> TRUE, name |-> match[1].product_name, price |-> match[1].price,
              sale_price |-> match[1].sale_price, category |-> match[1].category,
              status |-> match[1].status]
        ELSE [in |-> FALSE, name |-> None, price |-> NaN, sale_price |-> NaN,
              category |-> None, status |-> None]

\* AllSkus without the filter on empty identifiers
AllSkus_KeepEmpty(src) ==
    UNION {{src[s][i].sku : i \in 1..Len(src[s])} : s \in DOMAIN src}

\* lines 24-27: the non-empty identifiers of all sources
AllSkus(src) ==
    UNION {{src[s][i].sku : i \in 1..Len(src[s])} : s \in DOMAIN src} \ {EmptySku}

\* sorted(all_skus)
SortedSkus(skus) == SelectSeq(<<EmptySku>> \o SkuOrder, LAMBDA k : k \in skus)

\* lines 14-51
merge_by_sku(src) ==
    IF DOMAIN src = {} THEN <<>>
    ELSE LET skus == SortedSkus(AllSkus(src))
         IN  [i \in 1..Len(skus) |->
                 [sku |-> skus[i], cell |-> [s \in DOMAIN src |-> MergedCell(src[s], skus[i])]]]

\* lines 78-79: ", ".join(q)
RECURSIVE JoinComma(_)
JoinComma(q) ==
    IF q = <<>> THEN ""
    ELSE IF Len(q) = 1 THEN q[1]
    ELSE q[1] \o ", " \o JoinComma(Tail(q))

\* MissingRow taking the name of the last present source, not the first
MissingRow_NameOfLast(row, names) ==
    LET present_in == SelectSeq(names, LAMBDA s : row.cell[s].in)
        absent_from == SelectSeq(names, LAMBDA s : ~row.cell[s].in)
        named == SelectSeq(present_in, LAMBDA s : Truthy(row.cell[s].name))
    IN  [sku |-> row.sku,
         product_name |-> IF named # <<>> THEN row.cell[named[Len(named)]].name ELSE EmptyText,
         present_in |-> JoinComma(present_in),
         absent_from |-> JoinComma(absent_from),
         zoho_status |-> IF "zoho" \in DOMAIN row.cell /\ TruthyWord(row.cell["zoho"].status)
                         THEN row.cell["zoho"].status ELSE ""]

\* lines 62-82: the row of find_missing for a merged row
MissingRow(row, names) ==
    LET present_in == SelectSeq(names, LAMBDA s : row.cell[s].in)
        absent_from == SelectSeq(names, LAMBDA s : ~row.cell[s].in)
        named == SelectSeq(present_in, LAMBDA s : Truthy(row.cell[s].name))
    IN  [sku |-> row.sku,
         product_name |-> IF named # <<>> THEN row.cell[named[1]].name ELSE EmptyText,
         present_in |-> JoinComma(present_in),
         absent_from |-> JoinComma(absent_from),
         zoho_status |-> IF "zoho" \in DOMAIN row.cell /\ TruthyWord(row.cell["zoho"].status)
                         THEN row.cell["zoho"].status ELSE ""]

\* lines 54-84
find_missing(mrg, src) ==
    LET names == SourceNames(src)
        gaps == SelectSeq(mrg, LAMBDA row : \E s \in DOMAIN src : ~row.cell[s].in)
    IN  [i \in 1..Len(gaps) |-> MissingRow(gaps[i], names)]

\* lines 95-98: the sources of the row that are present and have a price
PricedSources(row, names) ==
    SelectSeq(names, LAMBDA s : row.cell[s].in /\ row.cell[s].price # NaN)

PriceValues(row, names) == {row.cell[s].price[1] : s \in SeqToSet(PricedSources(row, names))}

\* lines 103-106, in thousandths
AbsDiff(row, names) == SetMax(PriceValues(row, names)) - SetMin(PriceValues(row, names))

\* PriceIsReported with "<" for "<=" in the test of line 109
PriceIsReported_StrictTolerance(row, names, cfg) ==
    /\ Len(PricedSources(row, names)) >= 2
    /\ LET abs_diff == AbsDiff(row, names)
           min_price == SetMin(PriceValues(row, names))
       IN  /\ ~(abs_diff < cfg.PRICE_TOLERANCE)
           /\ ~(/\ cfg.PRICE_TOLERANCE_PERCENT > 0 /\ min_price > 0
                /\ abs_diff * 1000 <= cfg.PRICE_TOLERANCE_PERCENT * min_price)

\* PriceIsReported with the two tolerance tests joined the other way: a
\* difference is dropped only if it is within both tolerances
PriceIsReported_SuppressNeedsBoth(row, names, cfg) ==
    /\ Len(PricedSources(row, names)) >= 2
    /\ LET abs_diff == AbsDiff(row, names)
           min_price == SetMin(PriceValues(row, names))
       IN  IF cfg.PRICE_TOLERANCE_PERCENT > 0 /\ min_price > 0
           THEN \/ abs_diff > cfg.PRICE_TOLERANCE
                \/ abs_diff * 1000 > cfg.PRICE_TOLERANCE_PERCENT * min_price
           ELSE abs_diff > cfg.PRICE_TOLERANCE

\* lines 100-115: whether the row gets a row of find_price_differences.
\* PRICE_TOLERANCE is in thousandths, PRICE_TOLERANCE_PERCENT in tenths of a
\* percent, so (abs_diff / min_price) * 100 <= PRICE_TOLERANCE_PERCENT is
\* abs_diff * 1000 <= PRICE_TOLERANCE_PERCENT * min_price.
PriceIsReported(row, names, cfg) ==
    /\ Len(PricedSources(row, names)) >= 2
    /\ LET abs_diff == AbsDiff(row, names)
           min_price == SetMin(PriceValues(row, names))
       IN  /\ ~(abs_diff <= cfg.PRICE_TOLERANCE)
           /\ ~(/\ cfg.PRICE_TOLERANCE_PERCENT > 0 /\ min_price > 0
                /\ abs_diff * 1000 <= cfg.PRICE_TOLERANCE_PERCENT * min_price)

\* lines 117-130; price_diff is round(abs_diff, 2) in hundredths
PriceRow(row, names) ==
    LET named == SelectSeq(names, LAMBDA s : Truthy(row.cell[s].name))
        priced == SeqToSet(PricedSources(row, names))
    IN  [sku |-> row.sku,
         product_name |-> IF named # <<>> THEN row.cell[named[1]].name ELSE EmptyText,
         price_diff |-> RoundHundredths(AbsDiff(row, names), 3),
         price |-> [s \in SeqToSet(names) |-> IF s \in priced THEN row.cell[s].price ELSE NaN]]

\* lines 87-134
find_price_differences(mrg, src, cfg) ==
    LET names == SourceNames(src)
        diffs == SelectSeq(mrg, LAMBDA row : PriceIsReported(row, names, cfg))
    IN  [i \in 1..Len(diffs) |-> PriceRow(diffs[i], names)]

\* row i of the table of longest common subsequences of a and b: entry j is
\* the length for a[1..i] and b[1..j]; prev is row i - 1, cur the entries so far
RECURSIVE LcsRow(_, _, _, _, _)
LcsRow(a, b, i, prev, cur) ==
    IF Len(cur) = Len(b) THEN cur
    ELSE LET j == Len(cur) + 1
             left == IF j = 1 THEN 0 ELSE cur[j - 1]
             diag == IF j = 1 THEN 0 ELSE prev[j - 1]
         IN  LcsRow(a, b, i, prev,
                    Append(cur, IF a[i] = b[j] THEN diag + 1
                                ELSE IF prev[j] >= left THEN prev[j] ELSE left))

\* the last row of the table, from row i on
RECURSIVE LcsRows(_, _, _, _)
LcsRows(a, b, i, prev) ==
    IF i > Len(a) THEN prev ELSE LcsRows(a, b, i + 1, LcsRow(a, b, i, prev, <<>>))

\* the length of a longest common subsequence of a and b
LcsLen(a, b) ==
    IF Len(b) = 0 THEN 0
    ELSE LcsRows(a, b, 1, [j \in 1..Len(b) |-> 0])[Len(b)]

\* round() of the fraction n / d, halves to even
RoundFraction(n, d) ==
    LET q == n \div d
        r == n % d
    IN  IF 2 * r > d \/ (2 * r = d /\ q % 2 = 1) THEN q + 1 ELSE q

\* line 160: fuzz.ratio of thefuzz: the normalized indel similarity
\* 100 * 2 * lcs / (len(a) + len(b)), rounded to an integer
FuzzRatio(a, b) ==
    IF Len(a) + Len(b) = 0 THEN 100
    ELSE RoundFraction(200 * LcsLen(a, b), Len(a) + Len(b))

\* lines 145-148: the sources of the row that are present and have a name
NamedSources(row, names) ==
    SelectSeq(names, LAMBDA s : row.cell[s].in /\ Truthy(row.cell[s].name))

\* NameIsReported with the test of line 161 without "ratio < 100"
NameIsReported_IdenticalFlagged(row, names, cfg) ==
    LET named == NamedSources(row, names)
    IN  /\ Len(named) >= 2
        /\ \E i \in 1..Len(named) : \E j \in (i + 1)..Len(named) :
              LET ratio == FuzzRatio(Lower(row.cell[named[i]].name), Lower(row.cell[named[j]].name))
              IN  ratio >= cfg.FUZZY_MATCH_THRESHOLD

\* lines 150-164: has_diff
NameIsReported(row, names, cfg) ==
    LET named == NamedSources(row, names)
    IN  /\ Len(named) >= 2
        /\ \E i \in 1..Len(named) : \E j \in (i + 1)..Len(named) :
              LET ratio == FuzzRatio(Lower(row.cell[named[i]].name), Lower(row.cell[named[j]].name))
              IN  ratio < 100 /\ ratio >= cfg.FUZZY_MATCH_THRESHOLD

\* lines 165-167
NameRow(row, names) ==
    [sku |-> row.sku,
     name |-> [s \in SeqToSet(names) |->
                  IF s \in SeqToSet(NamedSources(row, names)) THEN row.cell[s].name ELSE EmptyText]]

\* lines 137-170
find_name_differences(mrg, src, cfg) ==
    LET names == SourceNames(src)
        diffs == SelectSeq(mrg, LAMBDA row : NameIsReported(row, names, cfg))
    IN  [i \in 1..Len(diffs) |-> NameRow(diffs[i], names)]

\* config.example.py lines 78-80: PRICE_TOLERANCE = 0.01 in thousandths,
\* PRICE_TOLERANCE_PERCENT = 0.0 in tenths of a percent, FUZZY_MATCH_THRESHOLD
DefaultConfig ==
    [PRICE_TOLERANCE |-> 10, PRICE_TOLERANCE_PERCENT |-> 0, FUZZY_MATCH_THRESHOLD |-> 85]

---------------------------------------------------------------------------
(* Inputs                                                                  *)

\* every text of exactly k, and of at most n, characters over the alphabet A
TextsOfLen(A, k) == [1..k -> A]
TextsUpTo(A, n) == UNION {TextsOfLen(A, k) : k \in 0..n}

MaxValLen == 4
NormAlphabet == {"5", "m", "i", "n", " ", ",", "/", "\"", "M"}

\* pairs of values of at most MaxPairLen characters together, every value of at
\* most MaxReflLen characters paired with itself, and the examples below
MaxPairLen == 4
MaxReflLen == 3
MatchAlphabet == {"3", "8", ".", "m", " ", "|", ","}

T_45mm_38mm_Pins == <<"4", "5", "m", "m", " ", "|", " ", "3", "8", "m", "m", " ", "P", "i", "n", "s">>
T_38mm == <<"3", "8", "m", "m">>
T_50mm == <<"5", "0", "m", "m">>
T_Excavator == <<"E", "x", "c", "a", "v", "a", "t", "o", "r">>
T_excavator_attachment == <<"e", "x", "c", "a", "v", "a", "t", "o", "r", " ", "a", "t", "t", "a", "c", "h", "m", "e", "n", "t">>
T_3_8_bar_3_8 == <<"3", "|", "8">>
T_3 == <<"3">>
T_30_mm == <<"3", "0", " ", "m", "m">>
T_pin_on == <<"p", "i", "n", " ", "o", "n">>
T_x_bolt_on_adapter == <<"x", ",", " ", "b", "o", "l", "t", "-", "o", "n", " ", "a", "d", "a", "p", "t", "e", "r">>
T_pin == <<"p", "i", "n">>

MatchExamples ==
    {<<T_45mm_38mm_Pins, T_38mm>>, <<T_45mm_38mm_Pins, T_50mm>>,
     <<T_45mm_38mm_Pins, T_45mm_38mm_Pins>>,
     <<T_Excavator, T_excavator_attachment>>, <<T_excavator_attachment, T_38mm>>,
     <<T_3, T_30_mm>>, <<T_pin_on, T_x_bolt_on_adapter>>, <<T_pin, T_pin>>}

\* weights: texts of at most MaxWeightLen characters, and the examples below
MaxWeightLen == 4
WeightAlphabet == {"2", "0", ".", "k", "g", "K", " ", ","}

T_50_kg == <<"5", "0", " ", "k", "g">>
T_170_23_lb == <<"1", "7", "0", ".", "2", "3", " ", "l", "b">>
T_1_500_KG == <<"1", ",", "5", "0", "0", " ", "K", "G">>

WeightExamples == {T_50_kg, T_170_23_lb, T_1_500_KG}

\* titles: texts of at most MaxTitleLen characters, and the examples below
MaxTitleLen == 5
TitleAlphabet == {"8", ".", "\"", "RDQ", " ", "J"}

T_800_Joules == <<"8", "0", "0", " ", "J", "o", "u", "l", "e", "s", " ", "E", "n", "e", "r", "g", "y", " ", "H", "a", "m", "m", "e", "r">>
T_42_Ditching_Bucket == <<"4", "2", "\"", " ", "D", "i", "t", "c", "h", "i", "n", "g", " ", "B", "u", "c", "k", "e", "t">>
T_7_5_Bucket == <<"7", ".", "5", "DPRIME", " ", "B", "u", "c", "k", "e", "t">>
T_7_dot_Bucket == <<"7", ".", "\"", " ", "B", "u", "c", "k", "e", "t">>
T_24_Bucket_padded == <<" ", "2", "4", "LDQ", "\t", "B", "u", "c", "k", "e", "t", " ">>

T_12_Bucket_45mm_Pins == <<"1", "2", "\"", " ", "B", "u", "c", "k", "e", "t", " ", "4", "5", "m", "m", " ", "P", "i", "n", "s">>
T_Kubota_Wedge_Style_45mm_pin == <<"K", "u", "b", "o", "t", "a", " ", "W", "e", "d", "g", "e", " ", " ", "S", "t", "y", "l", "e", " ", "4", "5", " ", "m", "m", " ", "p", "i", "n">>
T_Pin_On_Style == <<"8", "\"", " ", "P", "I", "N", " ", "O", "N", " ", "S", "T", "Y", "L", "E">>
T_45mm_slash_38mm_pins == <<"9", " ", "4", "5", "m", "m", "/", "3", "8", "m", "m", "p", "i", "n", "s">>

T_Pin_On_Style_Cat_Pin_Grabber == Chars("Pin On Style Cat Pin Grabber 45mm Pins")
T_Rock_Auger_Bit == Chars("Rock Auger Bit")
T_Tooth_Pin_Ditching_Bucket == Chars("Tooth Pin Ditching Bucket")

TitleExamples ==
    {T_800_Joules, T_42_Ditching_Bucket, T_7_5_Bucket, T_7_dot_Bucket, T_24_Bucket_padded,
     T_45mm_38mm_Pins, T_12_Bucket_45mm_Pins, T_Kubota_Wedge_Style_45mm_pin, T_Pin_On_Style,
     T_45mm_slash_38mm_pins, T_Pin_On_Style_Cat_Pin_Grabber, T_Rock_Auger_Bit,
     T_Tooth_Pin_Ditching_Bucket}

\* the pairs <<parsed_val, actual_val>> the resolver is run on
IsMatchInput(x, y) ==
    \/ \E k \in 0..MaxPairLen :
           x \in TextsOfLen(MatchAlphabet, k) /\ y \in TextsUpTo(MatchAlphabet, MaxPairLen - k)
    \/ x \in TextsUpTo(MatchAlphabet, MaxReflLen) /\ y = x
    \/ \E pr \in MatchExamples : x = pr[1] /\ y = pr[2]

---------------------------------------------------------------------------
(* loaders.load_all and the files of a run                                 *)

\* a file of the run: its condition, the rows its loader returns for it and
\* the rows its readers iterate
File(cond, loaded, rows) == [cond |-> cond, loaded |-> loaded, rows |-> rows]
NoFile == File("absent", <<>>, <<>>)

\* load_all without the test of line 244: the CSV export is read whether it
\* is there or not
LoadZoho_CsvUnchecked(f) ==
    IF f.zoho_api.cond = "ok"
    THEN [got |-> <<f.zoho_api.loaded>>, log |-> <<"[OK] zoho (API)">>]
    ELSE IF f.zoho_csv.cond = "ok"
    THEN [got |-> <<f.zoho_csv.loaded>>, log |-> <<"[WARN] zoho API", "[OK] zoho (CSV)">>]
    ELSE [got |-> <<>>, log |-> <<"[WARN] zoho API", "[ERROR] zoho CSV">>]

\* loaders.py lines 238-250: the Zoho API, then the CSV export; an API that
\* answers with no active item ("empty") has _normalize raise (lines 36-41)
LoadZoho(f) ==
    IF f.zoho_api.cond = "ok"
    THEN [got |-> <<f.zoho_api.loaded>>, log |-> <<"[OK] zoho (API)">>]
    ELSE IF f.zoho_csv.cond = "absent"
    THEN [got |-> <<>>, log |-> <<"[WARN] zoho API", "[SKIP] zoho">>]
    ELSE IF f.zoho_csv.cond = "ok"
    THEN [got |-> <<f.zoho_csv.loaded>>, log |-> <<"[WARN] zoho API", "[OK] zoho (CSV)">>]
    ELSE [got |-> <<>>, log |-> <<"[WARN] zoho API", "[ERROR] zoho CSV">>]

\* loaders.py lines 252-271: a file that is there is loaded; an exception of
\* its loader is printed
LoadFile(file, name, good) ==
    IF file.cond = "absent" THEN [got |-> <<>>, log |-> <<"[SKIP] " \o name>>]
    ELSE IF file.cond \in good THEN [got |-> <<file.loaded>>, log |-> <<"[OK] " \o name>>]
    ELSE [got |-> <<>>, log |-> <<"[ERROR] " \o name>>]

\* loaders.py lines 234-273: the sources that load and the lines printed
load_all(f) ==
    LET got == [zoho |-> LoadZoho(f),
                website |-> LoadFile(f.website, "website", {"ok"}),
                google |-> LoadFile(f.google, "google", {"xlsx", "csv"})]
    IN  [sources |-> [s \in {u \in SourceSet : got[u].got # <<>>} |-> got[s].got[1]],
         log |-> got["zoho"].log \o got["website"].log \o got["google"].log]

\* load_zoho without lines 132-135: the cache is left as it was
CacheAfterLoad_NoWrite(f) == f.zoho_cache

\* loaders.py lines 132-135: load_zoho writes the items it fetched to the
\* cache before it returns
CacheAfterLoad(f) ==
    IF f.zoho_api.cond \in {"ok", "empty"} THEN File("ok", <<>>, f.zoho_api.rows)
    ELSE f.zoho_cache

\* the files a run that loaded src may have had: the Zoho rows from the CSV
\* export, the Google rows from a CSV file, and no attribute of any product
FilesOf(src) ==
    LET file(s, cond) == IF s \in DOMAIN src THEN File(cond, src[s], <<>>) ELSE NoFile
    IN  [zoho_api |-> File("fails", <<>>, <<>>),
         zoho_cache |-> NoFile,
         zoho_csv |-> file("zoho", "ok"),
         website |-> file("website", "ok"),
         google |-> file("google", "csv")]

---------------------------------------------------------------------------
(* The files the readers of name_parser, comparator and grid_view open     *)
(*                                                                         *)
(* A file is a record with cond, its condition, and rows (items for the    *)
(* Zoho API and its cache).  A dict of labels to texts is a sequence of     *)
(* entries with distinct names, in the order the keys were first set.       *)

Entry(name, value) == [name |-> name, value |-> value]

\* key in d
HasKey(d, name) == \E i \in 1..Len(d) : d[i].name = name

\* d[key]
ValueOf(d, name) == d[CHOOSE i \in 1..Len(d) : d[i].name = name].value

\* the n-th smallest number of a set
Nth(S, n) == CHOOSE x \in S : Cardinality({y \in S : y < x}) = n - 1

\* the dict that setting d[name] = value for the pairs in turn builds: a key
\* stays where it was first set and holds the value set last
DictOf(pairs) ==
    LET first == {i \in 1..Len(pairs) : \A j \in 1..(i - 1) : pairs[j].name # pairs[i].name}
        last(name) == SetMax({i \in 1..Len(pairs) : pairs[i].name = name})
    IN  [n \in 1..Cardinality(first) |->
            Entry(pairs[Nth(first, n)].name, pairs[last(pairs[Nth(first, n)].name)].value)]

\* the row a dict keyed by sku keeps for a sku: the last one of the file
LastRow(rows, sku) == rows[SetMax({i \in 1..Len(rows) : rows[i].sku = sku})]

\* the keys of a dict keyed by sku: rows without a sku are passed over
SkusOf(rows) == {rows[i].sku : i \in 1..Len(rows)} \ {EmptySku}

\* str(NaN), the text pandas' empty cell turns into
NanText == Chars("nan")

\* str(value).strip() of a cell read with dtype=str: a text, or NaN (None)
CellText(value) == IF value = None THEN NanText ELSE Strip(value)

\* name_parser.py lines 177-193
_load_zoho_website_titles(cache) ==
    IF cache.cond = "absent" THEN <<>>
    ELSE [sku \in SkusOf(cache.rows) |->
            [website_title |-> LastRow(cache.rows, sku).cf_website_title_only,
             category |-> LastRow(cache.rows, sku).category_name]]

\* name_parser.py lines 238-255: the pairs of the "Attribute i name" and
\* "Attribute i value(s)" columns of a row that has the name
_load_website_attrs(file) ==
    IF file.cond = "absent" THEN <<>>
    ELSE [sku \in SkusOf(file.rows) |->
            LET cols == LastRow(file.rows, sku).attributes
            IN  DictOf([i \in 1..Len(cols) |->
                           Entry(Strip(cols[i].name), CellText(cols[i].value))])]

\* str.replace(pat, '')
RECURSIVE RemoveText(_, _)
RemoveText(s, pat) ==
    IF Len(s) < Len(pat) THEN s
    ELSE IF StartsAt(s, 1, pat) THEN RemoveText(SubSeq(s, Len(pat) + 1, Len(s)), pat)
    ELSE <<Head(s)>> \o RemoveText(Tail(s), pat)

\* name_parser.py line 292
CleanColumn(col) == Strip(RemoveText(RemoveText(col, Chars("/NA")), Chars("/Filter")))

\* name_parser.py lines 258-295: the columns of a row other than the sku that
\* hold a text other than "nan"
_load_google_attrs(file) ==
    IF file.cond = "absent" THEN <<>>
    ELSE [sku \in SkusOf(file.rows) |->
            LET cols == SelectSeq(LastRow(file.rows, sku).columns,
                                  LAMBDA c : /\ c.value # None
                                             /\ Strip(c.value) # <<>>
                                             /\ Lower(c.value) # NanText)
            IN  DictOf([i \in 1..Len(cols) |->
                           Entry(CleanColumn(cols[i].name), Strip(cols[i].value))])]

\* pd.read_csv of the website file and pd.ExcelFile of the Google file raise
\* on a file that is there and is not what they read
WebsiteFileRaises(file) == file.cond = "unreadable"
GoogleFileRaises(file) == file.cond \in {"unreadable", "csv"}

\* name_parser.py lines 216-233: the custom fields of an item and the labels
\* they are shown under, in the order the code reads them
cf_map ==
    <<Entry("cf_front_pin_size", Chars("Front Pin Diameter (mm)")),
      Entry("cf_back_pin_size", Chars("Rear Pin Diameter (mm)")),
      Entry("cf_coupler_head_type", Chars("Coupler Head Type")),
      Entry("cf_product_weight", Chars("Product Weight (kg)")),
      Entry("cf_product_weight_lbs", Chars("Product Weight (lbs)")),
      Entry("cf_product_width_mm", Chars("Product Width (mm)")),
      Entry("cf_product_width_in", Chars("Product Width (in)")),
      Entry("cf_capacity_yds", Chars("Product Capacity (yds)")),
      Entry("cf_product_capacity_m3", Chars("Capacity (m") \o <<"CUBED">> \o Chars(")")),
      Entry("cf_teeth_type", Chars("Teeth Type")),
      Entry("cf_center_to_center", Chars("Center to Center")),
      Entry("cf_front_ear_to_ear", Chars("Front Ear to Ear")),
      Entry("cf_back_ear_to_ear", Chars("Rear Ear to Ear")),
      Entry("cf_drain_holes", Chars("Drain Holes")),
      Entry("cf_add_ons", Chars("Add-on included"))>>

\* lines 209-213: the pairs attribute_name1..3 / attribute_option_name1..3
\* that have both a name and an option
NamedOptions(item) ==
    LET both == SelectSeq(item.attributes, LAMBDA a : a.name # EmptyText /\ a.value # EmptyText)
    IN  [i \in 1..Len(both) |-> Entry(Strip(both[i].name), Strip(both[i].value))]

\* lines 232-235: the custom fields of cf_map that hold a text other than
\* "false"
CustomFields(item) ==
    LET held == SelectSeq(cf_map, LAMBDA e : /\ HasKey(item.cf, e.name)
                                             /\ Strip(ValueOf(item.cf, e.name)) # <<>>
                                             /\ Lower(ValueOf(item.cf, e.name)) # Chars("false"))
    IN  [i \in 1..Len(held) |-> Entry(held[i].value, Strip(ValueOf(item.cf, held[i].name)))]

\* name_parser.py lines 196-235
_load_zoho_attrs(cache) ==
    IF cache.cond = "absent" THEN <<>>
    ELSE [sku \in SkusOf(cache.rows) |->
            DictOf(NamedOptions(LastRow(cache.rows, sku)) \o CustomFields(LastRow(cache.rows, sku)))]


---------------------------------------------------------------------------
(* name_parser.compare_name_vs_attributes                                  *)

\* name_parser.py lines 328-351: the labels a source may use for a label of
\* the title, in the order they are tried (a key given twice keeps its last list)
ATTR_MAP ==
    <<[label |-> "Bucket Size",
       names |-> <<Chars("Bucket Size"),
                   Chars("Bucket Size (in)"),
                   Chars("Bucket Size (in)/Filter"),
                   Chars("Rake Width (in)"),
                   Chars("Width (in)"),
                   Chars("Bucket Width (in)"),
                   Chars("Grapple Width (in)"),
                   Chars("Product Width (in)")>>],
      [label |-> "Pin Size",
       names |-> <<Chars("Front Pin Diameter (mm)"),
                   Chars("Front Pin Diameter"),
                   Chars("Pin Size"),
                   Chars("Pin Diameter (mm)"),
                   Chars("Front Pin Size")>>],
      [label |-> "Carrier Weight Class",
       names |-> <<Chars("Carrier Weight Class"),
                   Chars("Carrier Weight Class (tn)")>>],
      [label |-> "Machine Type",
       names |-> <<Chars("Machine Type")>>],
      [label |-> "Coupler Type",
       names |-> <<Chars("Coupler Head Type"),
                   Chars("Coupler Type"),
                   Chars("Coupler Type/Filter")>>],
      [label |-> "Product Type",
       names |-> <<Chars("Bucket Type"),
                   Chars("Category"),
                   Chars("Attachment Types")>>],
      [label |-> "Fits To",
       names |-> <<Chars("Fits To")>>],
      [label |-> "Diameter (mm)",
       names |-> <<Chars("Pin Diameter (mm)"),
                   Chars("Chisel Bit Diameter (mm)"),
                   Chars("Auger Bit Width (mm)")>>],
      [label |-> "Length (mm)",
       names |-> <<Chars("Length (mm)"),
                   Chars("Pin Length (mm)")>>],
      [label |-> "Hex Size",
       names |-> <<Chars("Hex Size")>>],
      [label |-> "Product Capacity (yds)",
       names |-> <<Chars("Capacity (yd") \o <<"CUBED">> \o Chars(")"),
                   Chars("Capacity (yd") \o <<"CUBED">> \o Chars(")/Filter"),
                   Chars("Capacity ($yd^3$)"),
                   Chars("Capacity (yds)")>>],
      [label |-> "Capacity (mCUBED)",
       names |-> <<Chars("Capacity (m") \o <<"CUBED">> \o Chars(")"),
                   Chars("Capacity ($m^3$)"),
                   Chars("Capacity (m3)")>>],
      [label |-> "Rear Pin Diameter (mm)",
       names |-> <<Chars("Rear Pin Diameter"),
                   Chars("Rear Pin Diameter (mm)/Filter"),
                   Chars("Rear Pin Size (mm)"),
                   Chars("Back Pin Size (mm)")>>],
      [label |-> "Attachment Types",
       names |-> <<Chars("Attachment Types"),
                   Chars("Attachment Types/NA")>>],
      [label |-> "Product Weight (lbs)",
       names |-> <<Chars("Weight (lb)"),
                   Chars("Weight (lbs)"),
                   Chars("Rake Weight (lb)")>>]>>

\* ATTR_MAP.get(parsed_attr, [parsed_attr])
PossibleNames(label) ==
    IF \E k \in 1..Len(ATTR_MAP) : ATTR_MAP[k].label = label
    THEN ATTR_MAP[CHOOSE k \in 1..Len(ATTR_MAP) : ATTR_MAP[k].label = label].names
    ELSE <<Chars(label)>>

\* lines 456-468: the value of the first possible name that is a key of the
\* source's dict, whatever that value is; "" without such a key
FirstAliasValue(attrs, names) ==
    LET held == {k \in 1..Len(names) : HasKey(attrs, names[k])}
    IN  IF held = {} THEN EmptyText ELSE ValueOf(attrs, names[SetMin(held)])

\* lines 471-472
MatchIfValue(parsed, value) ==
    IF value # EmptyText THEN _match_value(parsed, value) ELSE Incomparable

\* lines 475-482 with a row only where both sources disagree
NvaStatus_BothMismatch(web_match, google_match) ==
    IF web_match = Mismatch /\ google_match = Mismatch THEN "MISMATCH"
    ELSE IF web_match = Incomparable /\ google_match = Incomparable THEN "NOT FOUND"
    ELSE ""

\* lines 475-482: the status of the row, "" where no row is written
NvaStatus(web_match, google_match) ==
    IF web_match = Mismatch \/ google_match = Mismatch THEN "MISMATCH"
    ELSE IF web_match = Incomparable /\ google_match = Incomparable THEN "NOT FOUND"
    ELSE ""

\* the em dash the report shows for no value
Placeholder == <<"EMDASH">>

\* "Yes" if m else ("No" if m is False else the dash)
MatchWord(m) ==
    IF m = Match THEN Chars("Yes") ELSE IF m = Mismatch THEN Chars("No") ELSE Placeholder

\* lines 484-496: the row of one label of one product
NvaRowOf(title, category, sku, label, from_title, web_val, google_val, web_match, google_match) ==
    [sku |-> sku,
     category |-> category,
     product_title |-> SubSeq(title, 1, IF Len(title) < 80 THEN Len(title) ELSE 80),
     attribute |-> label,
     from_name |-> from_title,
     website_value |-> IF web_val # EmptyText THEN web_val ELSE Placeholder,
     google_value |-> IF google_val # EmptyText THEN google_val ELSE Placeholder,
     status |-> NvaStatus(web_match, google_match),
     web_match |-> MatchWord(web_match),
     google_match |-> MatchWord(google_match)]

\* lines 452-496 for one label of one product: the row the loop body works
\* out from the value of the title and the values of the two sources; it is
\* written where the status is not ""
NvaRow(title, category, sku, label, web, google) ==
    CHOOSE row \in
        {NvaRowOf(title, category, sku, label, p, w, g, MatchIfValue(p, w), MatchIfValue(p, g)) :
            p \in {parse_name(title)[label]},
            w \in {FirstAliasValue(web, PossibleNames(label))},
            g \in {FirstAliasValue(google, PossibleNames(label))}} : TRUE

\* str order of the categories, the labels and the skus of the model
CategoryOrder == <<"", "Buckets", "Hydraulic Hammer", "Unknown">>
AttributeOrder == <<"Bucket Size", "Coupler Type", "Pin Size", "Product Type">>
RankIn(order, x) == CHOOSE i \in 1..Len(order) : order[i] = x

\* line 500: sort_values(["category", "attribute", "sku"])
NvaBefore(r, q) ==
    LET c1 == RankIn(CategoryOrder, r.category)
        c2 == RankIn(CategoryOrder, q.category)
        a1 == RankIn(AttributeOrder, r.attribute)
        a2 == RankIn(AttributeOrder, q.attribute)
        s1 == RankIn(SkuOrder, r.sku)
        s2 == RankIn(SkuOrder, q.sku)
    IN  \/ c1 < c2
        \/ c1 = c2 /\ a1 < a2
        \/ c1 = c2 /\ a1 = a2 /\ s1 < s2

\* lines 441-450: the products of the cache that have a title
TitledSkus(zoho_titles) ==
    {k \in DOMAIN zoho_titles : zoho_titles[k].website_title # EmptyText}

\* line 452: the labels the title yields
LabelsOf(title) ==
    CHOOSE labels \in {{l \in ParsedLabels : p[l] # None} : p \in {parse_name(title)}} : TRUE

\* web_attrs.get(sku, {})
AttrsOf(attrs, sku) == IF sku \in DOMAIN attrs THEN attrs[sku] ELSE <<>>

\* line 500: the rows in the order of sort_values
NvaSorted(issues) ==
    [n \in 1..Cardinality(issues) |->
        CHOOSE r \in issues : Cardinality({q \in issues : NvaBefore(q, r)}) = n - 1]

\* lines 441-501 for the dicts of the three readers
NvaOver(zoho_titles, web_attrs, google_attrs) ==
    CHOOSE res \in
        {[raised |-> FALSE, rows |-> NvaSorted({c \in cells : c.status # ""})] :
            cells \in {UNION {{NvaRow(zoho_titles[sku].website_title,
                                      zoho_titles[sku].category, sku, label,
                                      AttrsOf(web_attrs, sku), AttrsOf(google_attrs, sku)) :
                                  label \in LabelsOf(zoho_titles[sku].website_title)} :
                              sku \in TitledSkus(zoho_titles)}}} : TRUE

\* name_parser.py lines 426-501: the rows in the order of line 500, or the
\* exception of a reader
compare_name_vs_attributes(f) ==
    IF WebsiteFileRaises(f.website) \/ GoogleFileRaises(f.google)
    THEN [raised |-> TRUE, rows |-> <<>>]
    ELSE CHOOSE res \in
             {NvaOver(zoho_titles, web_attrs, google_attrs) :
                 zoho_titles \in {_load_zoho_website_titles(f.zoho_cache)},
                 web_attrs \in {_load_website_attrs(f.website)},
                 google_attrs \in {_load_google_attrs(f.google)}} : TRUE


---------------------------------------------------------------------------
(* comparator.find_attribute_differences                                  *)

\* a cell read with dtype=str that _parse_weight is handed: NaN gives None
\* as "" does
RawCell(value) == IF value = None THEN EmptyText ELSE value

\* row.get(label, default) of a row of the Google sheet: the cell under the
\* column (None for NaN), or the default without the column
ColumnGet(row, label, default) ==
    IF HasKey(row.columns, label) THEN ValueOf(row.columns, label) ELSE default

\* the keys of the dicts the readers of the Google file build
GoogleSkusOf(rows) == SkusOf(rows) \ {"NAN"}

\* lines 319-336
_load_zoho_raw_attrs(cache) ==
    IF cache.cond = "absent" THEN <<>>
    ELSE [sku \in SkusOf(cache.rows) |->
            [weight |-> LastRow(cache.rows, sku).weight_with_unit,
             shipping_weight |-> LastRow(cache.rows, sku).weight_with_unit,
             dimensions |-> LastRow(cache.rows, sku).dimensions_with_unit]]

\* lines 339-352
_load_website_raw_attrs(file) ==
    IF file.cond = "absent" THEN <<>>
    ELSE [sku \in SkusOf(file.rows) |-> [weight |-> RawCell(LastRow(file.rows, sku).weight)]]

\* str(value) of a cell inside the f-string of lines 378-380
CellStr(value) == IF value = None THEN NanText ELSE value

\* lines 378-380: one side of the dimensions text
GoogleSide(row, label) ==
    CellStr(ColumnGet(row, label \o Chars("/NA"), ColumnGet(row, label, EmptyText)))

\* lines 355-385
_load_google_raw_attrs(file) ==
    IF file.cond = "absent" THEN <<>>
    ELSE [sku \in GoogleSkusOf(file.rows) |->
            LET row == LastRow(file.rows, sku)
            IN  [weight_lb |-> RawCell(ColumnGet(row, Chars("Weight (lb)"), EmptyText)),
                 shipping_weight_lb |->
                     RawCell(ColumnGet(row, Chars("Shipping Weight (lb)/NA"),
                                       ColumnGet(row, Chars("Shipping Weight (lb)"), EmptyText))),
                 dimensions |->
                     GoogleSide(row, Chars("Shipping Length (in)")) \o Chars(" x ")
                     \o GoogleSide(row, Chars("Shipping Width (in)")) \o Chars(" x ")
                     \o GoogleSide(row, Chars("Shipping Height (in)"))]]

\* lines 191-203: None, or the first three numbers of the text in hundredths
_parse_dimensions(val) ==
    IF val = <<>> THEN None
    ELSE LET s == RemoveChars(Lower(Strip(val)), {"\"", "'"})
             nums == NumTokens(s)
         IN  IF Len(nums) >= 3 /\ (\A i \in 1..3 : FloatOk(nums[i]))
             THEN <<RoundHundredths(Float(nums[1]).num, Float(nums[1]).dec),
                    RoundHundredths(Float(nums[2]).num, Float(nums[2]).dec),
                    RoundHundredths(Float(nums[3]).num, Float(nums[3]).dec)>>
             ELSE None

\* the weights without the test "if w:": a weight of 0 is kept
TruthyWeights_KeepZero(held) ==
    [s \in {u \in DOMAIN held : _parse_weight(held[u]) # None} |-> _parse_weight(held[s])[1]]

\* "w = _parse_weight(...)" followed by "if w:": the weight in hundredths of
\* the sources of held (source to raw text) whose text gives a weight other
\* than 0
TruthyWeights(held) ==
    [s \in {u \in DOMAIN held : /\ _parse_weight(held[u]) # None
                                /\ _parse_weight(held[u])[1] # 0} |->
        _parse_weight(held[s])[1]]

\* lines 240-247, 263-270, 290-297: a difference of more than 0.5 between
\* the values of two or more sources; vals maps sources to hundredths
DiffOver(attribute, vals) ==
    LET v == {vals[s] : s \in DOMAIN vals}
    IN  IF Cardinality(DOMAIN vals) >= 2 /\ SetMax(v) - SetMin(v) > 50
        THEN <<[attribute |-> attribute, values |-> vals, diff |-> SetMax(v) - SetMin(v)]>>
        ELSE <<>>

\* the raw texts of one key of the sources that are present and hold the sku
RawOf(present, sku, raw, key) ==
    [s \in {u \in DOMAIN key : u \in present /\ sku \in DOMAIN raw[u]} |-> raw[s][sku][key[s]]]

\* lines 217-297: the differences of one merged row
AttributeDiffs(row, names, raw) ==
    LET present == {s \in SeqToSet(names) : row.cell[s].in}
        weights == TruthyWeights(RawOf(present, row.sku, raw,
                       [zoho |-> "weight", website |-> "weight", google |-> "weight_lb"]))
        ship_weights == TruthyWeights(RawOf(present, row.sku, raw,
                       [zoho |-> "shipping_weight", google |-> "shipping_weight_lb"]))
        dim_texts == RawOf(present, row.sku, raw, [zoho |-> "dimensions", google |-> "dimensions"])
        dims == [s \in {u \in DOMAIN dim_texts : _parse_dimensions(dim_texts[u]) # None} |->
                    _parse_dimensions(dim_texts[s])]
        side(i) == [s \in DOMAIN dims |-> dims[s][i]]
    IN  IF Cardinality(present) < 2 THEN <<>>
        ELSE DiffOver("Weight (lb)", weights)
             \o DiffOver("Shipping Weight (lb)", ship_weights)
             \o (IF Cardinality(DOMAIN dims) >= 2
                 THEN DiffOver("Shipping Length (in)", side(1))
                      \o DiffOver("Shipping Width (in)", side(2))
                      \o DiffOver("Shipping Height (in)", side(3))
                 ELSE <<>>)

\* lines 299-314: the rows of one merged row, named after the first present
\* source that has a name
AttributeRows(row, names, raw) ==
    LET present == SelectSeq(names, LAMBDA s : row.cell[s].in)
        named == SelectSeq(present, LAMBDA s : Truthy(row.cell[s].name))
        diffs == AttributeDiffs(row, names, raw)
    IN  [k \in 1..Len(diffs) |->
            [sku |-> row.sku,
             product_name |-> IF named # <<>> THEN row.cell[named[1]].name ELSE EmptyText,
             attribute |-> diffs[k].attribute,
             diff |-> diffs[k].diff,
             value |-> [s \in SeqToSet(names) |->
                           IF s \in DOMAIN diffs[k].values THEN <<diffs[k].values[s]>> ELSE <<>>]]]

\* the rows of the merged rows from the i-th on, one after the other
RECURSIVE AttributeRowsFrom(_, _, _, _)
AttributeRowsFrom(mrg, i, names, raw) ==
    IF i > Len(mrg) THEN <<>>
    ELSE AttributeRows(mrg[i], names, raw) \o AttributeRowsFrom(mrg, i + 1, names, raw)

\* lines 206-316: the rows, or the exception of a reader (lines 212-214)
find_attribute_differences(mrg, src, f) ==
    IF WebsiteFileRaises(f.website) \/ GoogleFileRaises(f.google)
    THEN [raised |-> TRUE, rows |-> <<>>]
    ELSE [raised |-> FALSE,
          rows |-> AttributeRowsFrom(mrg, 1, SourceNames(src),
                       [zoho |-> _load_zoho_raw_attrs(f.zoho_cache),
                        website |-> _load_website_raw_attrs(f.website),
                        google |-> _load_google_raw_attrs(f.google)])]

\* a detector that empties the table it iterates over
LeftByDetector_Consumed(table) == <<>>

\* lines 54-170, 206-316: what a detector leaves of the merged table and of
\* the sources handed to it: it iterates over merged.iterrows(), reads
\* row[...] and sources.keys(), and assigns to neither
LeftByDetector(table) == table


---------------------------------------------------------------------------
(* grid_view.build_grid                                                    *)


\* grid_view.py lines 17-23
COMMON_ATTRS ==
    <<Chars("Bucket Size"),
      Chars("Pin Size"),
      Chars("Carrier Weight Class"),
      Chars("Machine Type"),
      Chars("Head Style")>>

\* grid_view.py lines 26-35: the extra columns of a category, before the common ones
CATEGORY_ATTRS ==
    <<[category |-> "Bucket Tooth",
       attrs |-> <<Chars("Tooth Style"),
                   Chars("Tooth Pin Part Number"),
                   Chars("Serie")>>],
      [category |-> "Bucket Pin",
       attrs |-> <<Chars("Diameter (mm)"),
                   Chars("Length (mm)")>>],
      [category |-> "Bucket Shims",
       attrs |-> <<Chars("Outer Diameter"),
                   Chars("Interior Diameter"),
                   Chars("Thickness")>>],
      [category |-> "Auger Bits",
       attrs |-> <<Chars("Hex Size")>>],
      [category |-> "Hydraulic Hammer",
       attrs |-> <<Chars("Energy Class (J)")>>],
      [category |-> "Hammer Chisel Bits",
       attrs |-> <<Chars("Diameter (mm)")>>],
      [category |-> "Hammer Moil Chisel Bits",
       attrs |-> <<Chars("Diameter (mm)")>>],
      [category |-> "Hammer Wedge Chisel Bits",
       attrs |-> <<Chars("Diameter (mm)")>>]>>

\* grid_view.py lines 38-69: the categories without a "Bucket Size" column
NO_BUCKET_SIZE ==
    {"Hydraulic Hammer", "Hydraulic Hammers", "Hammer Chisel Bits",
     "Hammer Moil Chisel Bits", "Hammer Wedge Chisel Bits",
     "Hammer Plate Head", "Hammer Plate Heads", "Post Driver Hammer",
     "Post Driver Hammers", "Hydraulic Shear", "Hydraulic Shears",
     "Concrete Pulverizer", "Concrete Pulverizers", "Bucket Tooth",
     "Bucket Tooth Adapter", "Bucket Tooth Adapters", "Bucket Tooth Pin",
     "Bucket Tooth Pins", "Bucket Tooth Retainer", "Bucket Tooth Retainers",
     "Bucket Pin", "Bucket Pins", "Bucket Shims", "Bucket Side Cutters",
     "Bucket Side Bar Protector", "Bucket Side Bar Protectors",
     "Ripper Tooth", "Ripper Tooth - Shank", "Ripper Tooth Shank",
     "Ripper Tooth - Tooth Pin", "Ripper Tooth Pin",
     "Ripper Tooth - Tooth Replacement", "Ripper Tooth Replacement",
     "Ripper Shank Protectors", "Skid Steer Wear Parts", "Mechanical Thumb",
     "Hydraulic Thumb", "Main Pin Hydraulic Thumb",
     "Main Pin Hydraulic Progressive Thumb", "QC Main Pin Hydraulic Thumb",
     "Bolt-On Mount", "Auger Bits", "Rock Auger Bits", "Plate Compactor",
     "Plate Compactors", "Vibratory Roller", "Vibratory Rollers",
     "Compaction Wheel", "Compaction Wheels", "Pallet Forks - Excavators",
     "Pallet Forks - Skid Steer", "Universal Skid Steer Loader Adapter",
     "Flat Face Hydraulic Quick Connector", "Aux Hydraulic Piping Kits",
     "GearBox For Brush Cutter", "Hydraulic Motor Pump For Roller",
     "Vibratory Roller Parts Connection", "Blade Set for Brush Cutter",
     "Wheel & Plate Compactors Bolt-On", "Universal Weld-On Head Plates Set"}

\* grid_view.py lines 73-83: labels a title never carries
DATA_ONLY_ATTRS ==
    {Chars("Center to Center"),
     Chars("Drain Holes"),
     Chars("Product Weight (lbs)"),
     Chars("Product Weight (kg)"),
     Chars("Capacity (m") \o <<"CUBED">> \o Chars(")"),
     Chars("Add-on included"),
     Chars("Add-ons Included"),
     Chars("Front Ear to Ear"),
     Chars("Rear Ear to Ear")}

\* grid_view.py lines 270-285
skip_patterns ==
    <<Chars("Variation Name"),
      Chars("Category"),
      Chars("Handling Unit"),
      Chars("Unit"),
      Chars("Shipping Length"),
      Chars("Shipping Width"),
      Chars("Shipping Height"),
      Chars("Shipping Weight"),
      Chars("Weight (lb)"),
      Chars("Weight (kg)"),
      Chars("Product Name"),
      Chars("Name"),
      Chars("Product Width (in)"),
      Chars("Product Width (mm)"),
      Chars("Capacity (yd"),
      Chars("Capacity ($yd"),
      Chars("Coupler Head Type"),
      Chars("Coupler Type"),
      Chars("Bucket Type"),
      Chars("Chisel Bit Size"),
      Chars("Bit Diameter")>>

\* grid_view.py lines 326-358: other labels a source may use for a column
aliases ==
    <<[attr |-> Chars("Bucket Size"),
       names |-> <<Chars("Bucket Size (in)"),
                   Chars("Bucket Size (in)/Filter"),
                   Chars("Product Width (in)"),
                   Chars("Rake Size"),
                   Chars("Rake Width (in)"),
                   Chars("Width (in)"),
                   Chars("Grapple Width (in)"),
                   Chars("Grapple Size"),
                   Chars("Grapple Width"),
                   Chars("Broom Width (in)"),
                   Chars("Broom Size"),
                   Chars("Brush Size"),
                   Chars("Compaction Width"),
                   Chars("Fork Size"),
                   Chars("Saw Length")>>],
      [attr |-> Chars("Pin Size"),
       names |-> <<Chars("Front Pin Diameter (mm)"),
                   Chars("Front Pin Diameter"),
                   Chars("Pin Diameter (mm)"),
                   Chars("Pin size"),
                   Chars("Front Pin Size")>>],
      [attr |-> Chars("Front Pin Diameter (mm)"),
       names |-> <<Chars("Front Pin Diameter"),
                   Chars("Pin Size"),
                   Chars("Pin Diameter (mm)"),
                   Chars("Pin size"),
                   Chars("Front Pin Size")>>],
      [attr |-> Chars("Rear Pin Diameter (mm)"),
       names |-> <<Chars("Rear Pin Diameter"),
                   Chars("Rear Pin Diameter (mm)/Filter"),
                   Chars("Rear Pin Size (mm)"),
                   Chars("Back Pin Size (mm)")>>],
      [attr |-> Chars("Rear Ear to Ear"),
       names |-> <<Chars("Rear Ear to Ear (mm)"),
                   Chars("Rear Ear to Ear Distance"),
                   Chars("Back Ear to Ear")>>],
      [attr |-> Chars("Carrier Weight Class"),
       names |-> <<Chars("Carrier Weight Class (tn)"),
                   Chars("Carrier Weight Class ")>>],
      [attr |-> Chars("Head Style"),
       names |-> <<Chars("Coupler Head Type"),
                   Chars("Head Style"),
                   Chars("Coupler Type"),
                   Chars("Coupler Type/Filter"),
                   Chars("Head Type")>>],
      [attr |-> Chars("Machine Type"),
       names |-> <<Chars("Machine Type")>>],
      [attr |-> Chars("Product Capacity (yds)"),
       names |-> <<Chars("Capacity (yd") \o <<"CUBED">> \o Chars(")"),
                   Chars("Capacity (yd") \o <<"CUBED">> \o Chars(")/Filter"),
                   Chars("Capacity ($yd^3$)"),
                   Chars("Capacity (yds)")>>],
      [attr |-> Chars("Capacity (m") \o <<"CUBED">> \o Chars(")"),
       names |-> <<Chars("Capacity (m") \o <<"CUBED">> \o Chars(")"),
                   Chars("Capacity ($m^3$)"),
                   Chars("Capacity (m3)")>>],
      [attr |-> Chars("Attachment Types"),
       names |-> <<Chars("Attachment Types/NA")>>],
      [attr |-> Chars("Bucket Type"),
       names |-> <<Chars("Category"),
                   Chars("Category/NA")>>],
      [attr |-> Chars("Category"),
       names |-> <<Chars("Bucket Type")>>],
      [attr |-> Chars("Product Weight (lbs)"),
       names |-> <<Chars("Weight (lb)"),
                   Chars("Weight (lbs)"),
                   Chars("Rake Weight (lb)")>>],
      [attr |-> Chars("Product Weight (kg)"),
       names |-> <<Chars("Weight (kg)"),
                   Chars("Rake Weight (kg)")>>],
      [attr |-> Chars("Diameter (mm)"),
       names |-> <<Chars("Chisel Bit Size"),
                   Chars("Chisel Bit Diameter (mm)"),
                   Chars("Bit Diameter (mm)"),
                   Chars("Pin Diameter (mm)")>>],
      [attr |-> Chars("Outer Diameter"),
       names |-> <<Chars("Outer Diameter (mm)/Filter"),
                   Chars("Outer Diameter (mm)")>>],
      [attr |-> Chars("Interior Diameter"),
       names |-> <<Chars("Interior Diameter (mm)/Filter"),
                   Chars("Interior Diameter (mm)")>>],
      [attr |-> Chars("Thickness"),
       names |-> <<Chars("Height (mm)/Filter"),
                   Chars("Height (mm)"),
                   Chars("Thickness (mm)")>>]>>

\* the characters of the labels in the order of their code points ("GRAVE"
\* is U+0060)
CharOrder ==
    Chars(" !") \o <<"\"">> \o Chars("#$%&'()*+,-./0123456789:;<=>?@ABCDEFGHIJKLMNOPQRSTUVWXYZ[")
    \o <<"\\">> \o Chars("]^_") \o <<"GRAVE">> \o Chars("abcdefghijklmnopqrstuvwxyz{|}~")
    \o <<"CUBED", "EMDASH">>

\* a < b for two str
RECURSIVE TextLess(_, _)
TextLess(a, b) ==
    IF a = <<>> THEN b # <<>>
    ELSE IF b = <<>> THEN FALSE
    ELSE IF a[1] = b[1] THEN TextLess(Tail(a), Tail(b))
    ELSE RankIn(CharOrder, a[1]) < RankIn(CharOrder, b[1])

\* sorted(S) for a set of str
SortedTexts(S) ==
    <<>> \o [n \in 1..Cardinality(S) |->
                CHOOSE x \in S : Cardinality({y \in S : TextLess(y, x)}) = n - 1]

\* lines 263-265: re.sub(r'\s*\([^)]*\)\s*$', '', key).strip().lower(); the
\* match is the leftmost "(" with no ")" up to the one that ends the key,
\* with the whitespace before it
_attr_base(key) ==
    LET ends == {i \in 1..Len(key) : ~IsSpace(key[i])}
        e == IF ends = {} THEN 0 ELSE SetMax(ends)
        opens == {p \in 1..(e - 1) : /\ key[p] = "("
                                     /\ \A k \in (p + 1)..(e - 1) : key[k] # ")"}
    IN  IF e > 0 /\ key[e] = ")" /\ opens # {}
        THEN Lower(Strip(SubSeq(key, 1, SpaceRunStart(key, SetMin(opens)) - 1)))
        ELSE Lower(Strip(key))

\* "x == y or x in y or y in x" of lines 166 and 295
BasesOverlap(x, y) == x = y \/ Contains(y, x) \/ Contains(x, y)

\* line 289: a pattern of skip_patterns is in the key
IsSkipped(key) ==
    \E k \in 1..Len(skip_patterns) : Contains(Lower(key), Lower(skip_patterns[k]))

\* lines 291-297: the base of the key overlaps the base of a label of held
IsCovered(key, held) ==
    \E base \in {_attr_base(key)} : \E x \in held : BasesOverlap(_attr_base(x), base)

\* lines 287-299: the keys from the i-th on, each kept unless a pattern of
\* skip_patterns is in it or its base overlaps one that is covered or kept
RECURSIVE FilterFrom(_, _, _, _)
FilterFrom(keys, i, covered, result) ==
    IF i > Len(keys) THEN result
    ELSE CHOOSE r \in
             {FilterFrom(keys, i + 1, covered, next) :
                 next \in {IF \/ IsSkipped(keys[i])
                              \/ IsCovered(keys[i], SeqToSet(covered) \cup SeqToSet(result))
                           THEN result ELSE Append(result, keys[i])}} : TRUE

\* lines 268-300
_filter_important_attrs(all_keys, already_covered) ==
    CHOOSE r \in
        {SubSeq(result, 1, IF Len(result) < 15 THEN Len(result) ELSE 15) :
            result \in {FilterFrom(keys, 1, already_covered, <<>>) :
                          keys \in {SortedTexts(all_keys)}}} : TRUE

\* "Bucket Size" of line 139
BucketSizeLabel == Chars("Bucket Size")

\* line 139
CommonAttrs(cat) ==
    SelectSeq(COMMON_ATTRS, LAMBDA a : ~(a = BucketSizeLabel /\ cat \in NO_BUCKET_SIZE))

\* lines 139-141
AttrKeys(cat) ==
    IF \E k \in 1..Len(CATEGORY_ATTRS) : CATEGORY_ATTRS[k].category = cat
    THEN CATEGORY_ATTRS[CHOOSE k \in 1..Len(CATEGORY_ATTRS) : CATEGORY_ATTRS[k].category = cat].attrs
         \o CommonAttrs(cat)
    ELSE CommonAttrs(cat)

\* lines 144-153: the keys of a source's dicts for the skus of the category
KeysOf(attrs, skus) ==
    UNION {{attrs[sku][i].name : i \in 1..Len(attrs[sku])} : sku \in skus \cap DOMAIN attrs}

\* list(dict.fromkeys(q))
Unique(q) ==
    LET first == {i \in 1..Len(q) : \A j \in 1..(i - 1) : q[j] # q[i]}
    IN  [n \in 1..Cardinality(first) |-> q[Nth(first, n)]]

\* lines 163-170: the extra labels from the i-th on, each added unless it is
\* a column already or its base overlaps the base of a column
RECURSIVE AddExtras(_, _, _)
AddExtras(extra, i, names) ==
    IF i > Len(extra) THEN names
    ELSE CHOOSE r \in
             {AddExtras(extra, i + 1, next) :
                 next \in {IF \/ extra[i] \in SeqToSet(names)
                              \/ IsCovered(extra[i], SeqToSet(names))
                           THEN names ELSE Append(names, extra[i])}} : TRUE

\* lines 156-158: the labels of the sources that are no column yet
ExtraAttrs(attr_keys, skus, zoho_attrs, web_attrs, google_attrs) ==
    _filter_important_attrs(KeysOf(zoho_attrs, skus), attr_keys)
    \o _filter_important_attrs(KeysOf(web_attrs, skus), attr_keys)
    \o _filter_important_attrs(KeysOf(google_attrs, skus), attr_keys)

\* lines 139-170: the columns of a category before the empty ones are dropped
AllAttrNames(cat, skus, zoho_attrs, web_attrs, google_attrs) ==
    CHOOSE r \in
        UNION {{AddExtras(extra, 1, Unique(attr_keys)) :
                   extra \in {ExtraAttrs(attr_keys, skus, zoho_attrs, web_attrs, google_attrs)}} :
               attr_keys \in {AttrKeys(cat)}} : TRUE

\* the dict parse_name returns: the labels that are set, in the order the
\* code sets them
ParsedDict(title) ==
    LET parsed == parse_name(title)
        set == SelectSeq(ParsedLabelOrder, LAMBDA l : parsed[l] # None)
    IN  [i \in 1..Len(set) |-> Entry(Chars(set[i]), parsed[set[i]])]

\* "x.lower() in y.lower() or y.lower() in x.lower()"
LabelsOverlap(x, y) == Contains(Lower(y), Lower(x)) \/ Contains(Lower(x), Lower(y))

\* lines 303-311
_find_parsed_value(parsed, attr_name) ==
    LET fuzzy == {i \in 1..Len(parsed) : LabelsOverlap(parsed[i].name, attr_name)}
    IN  IF HasKey(parsed, attr_name) THEN ValueOf(parsed, attr_name)
        ELSE IF fuzzy # {} THEN parsed[SetMin(fuzzy)].value
        ELSE EmptyText

\* aliases.get(attr_name, [])
AliasesOf(attr_name) ==
    IF \E k \in 1..Len(aliases) : aliases[k].attr = attr_name
    THEN aliases[CHOOSE k \in 1..Len(aliases) : aliases[k].attr = attr_name].names
    ELSE <<>>

\* lines 314-362
_find_source_value(attrs, attr_name) ==
    LET partial == {i \in 1..Len(attrs) : LabelsOverlap(attrs[i].name, attr_name)}
        names == AliasesOf(attr_name)
        held == {k \in 1..Len(names) : HasKey(attrs, names[k])}
    IN  IF attrs = <<>> THEN EmptyText
        ELSE IF HasKey(attrs, attr_name) THEN ValueOf(attrs, attr_name)
        ELSE IF partial # {} THEN attrs[SetMin(partial)].value
        ELSE IF held # {} THEN ValueOf(attrs, names[SetMin(held)])
        ELSE EmptyText

\* line 369: the values that are not blank
Cleaned(values) == SelectSeq(values, LAMBDA v : v # EmptyText /\ Strip(v) # <<>>)

\* the pairs (i, j), i < j, that lines 373-376 hand to _match_value
PairsOf(cleaned) == {p \in (1..Len(cleaned)) \X (1..Len(cleaned)) : p[1] < p[2]}

\* the order in which the loops of lines 373-374 reach the pairs
PairBefore(p, q) == p[1] < q[1] \/ (p[1] = q[1] /\ p[2] < q[2])

\* the verdicts of the pairs, as pairs <<i, j, verdict>>
PairVerdicts(values) ==
    CHOOSE r \in
        {{<<p[1], p[2], _match_value(cleaned[p[1]], cleaned[p[2]])>> : p \in PairsOf(cleaned)} :
            cleaned \in {Cleaned(values)}} : TRUE

\* lines 365-377: "not _match_value(...)" fails a pair that mismatches and a
\* pair that cannot be compared alike
_all_match(values) == \A v \in PairVerdicts(values) : v[3] = Match

\* lines 225-228 with the value of the name counted for every label
StatusValues_NameAlways(attr_name, name_val, zoho_val, web_val, google_val) ==
    SelectSeq(<<name_val, zoho_val, web_val, google_val>>, LAMBDA v : v # EmptyText)

\* lines 225-228: the values the status is worked out from
StatusValues(attr_name, name_val, zoho_val, web_val, google_val) ==
    IF attr_name \in DATA_ONLY_ATTRS
    THEN SelectSeq(<<zoho_val, web_val, google_val>>, LAMBDA v : v # EmptyText)
    ELSE SelectSeq(<<name_val, zoho_val, web_val, google_val>>, LAMBDA v : v # EmptyText)

\* lines 229-236
CellStatus(attr_name, name_val, zoho_val, web_val, google_val) ==
    CHOOSE status \in
        {IF vals = <<>> THEN ""
         ELSE IF Len(vals) = 1 THEN "PARTIAL"
         ELSE IF _all_match(vals) THEN "OK"
         ELSE "MISMATCH" :
            vals \in {StatusValues(attr_name, name_val, zoho_val, web_val, google_val)}} : TRUE

\* lines 206-236: the cell of one column of one product
GridCell(attr_name, parsed, zoho, web, google) ==
    CHOOSE cell \in
        {[attr |-> attr_name, Name |-> name_val, Zoho |-> zoho_val, Web |-> web_val,
          Google |-> google_val,
          Status |-> CellStatus(attr_name, name_val, zoho_val, web_val, google_val)] :
            name_val \in {_find_parsed_value(parsed, attr_name)},
            zoho_val \in {_find_source_value(zoho, attr_name)},
            web_val \in {_find_source_value(web, attr_name)},
            google_val \in {_find_source_value(google, attr_name)}} : TRUE

\* line 247: bool(str(x).strip()) and str(x) not in ("", "nan")
HasData(x) == Strip(x) # <<>> /\ x # EmptyText /\ x # NanText

\* lines 243-253 with every column kept
NonEmptyAttrs_KeepAll(rows, all_attr_names) == all_attr_names

\* lines 243-253: the columns with a value in some row
NonEmptyAttrs(rows, all_attr_names) ==
    SelectSeq(all_attr_names,
              LAMBDA a : \E i \in 1..Len(rows) : \E k \in 1..Len(rows[i].cells) :
                             /\ rows[i].cells[k].attr = a
                             /\ \/ HasData(rows[i].cells[k].Name)
                                \/ HasData(rows[i].cells[k].Zoho)
                                \/ HasData(rows[i].cells[k].Web)
                                \/ HasData(rows[i].cells[k].Google))

\* lines 100-109: the items of the cache that are not inactive, by sku
ActiveItems(cache) ==
    IF cache.cond = "absent" THEN <<>>
    ELSE SelectSeq(cache.rows, LAMBDA item : item.status # "inactive" /\ item.sku # EmptySku)

\* line 126
CategoryOf(item) == IF item.category_name = "" THEN "Unknown" ELSE item.category_name

\* lines 124-129 and 134: the sorted skus of a category
CategorySkus(items, cat) ==
    SelectSeq(SkuOrder, LAMBDA k : \E i \in 1..Len(items) :
                                       items[i].sku = k /\ CategoryOf(LastRow(items, k)) = cat)

\* lines 173-238: the rows of the products of a category that have a title
GridRows(skus, all_attr_names, zoho_titles, zoho_attrs, web_attrs, google_attrs) ==
    <<>> \o [n \in 1..Len(skus) |->
                CHOOSE row \in
                    {[SKU |-> skus[n],
                      Title |-> zoho_titles[skus[n]].website_title,
                      InWebsite |-> skus[n] \in DOMAIN web_attrs,
                      InGoogle |-> skus[n] \in DOMAIN google_attrs,
                      cells |-> <<>> \o [k \in 1..Len(all_attr_names) |->
                                            GridCell(all_attr_names[k], parsed, zoho, web, google)]] :
                        parsed \in {ParsedDict(zoho_titles[skus[n]].website_title)},
                        zoho \in {AttrsOf(zoho_attrs, skus[n])},
                        web \in {AttrsOf(web_attrs, skus[n])},
                        google \in {AttrsOf(google_attrs, skus[n])}} : TRUE]

\* lines 174-178: the skus of the category whose title is not blank
TitledOf(skus, zoho_titles) ==
    SelectSeq(skus, LAMBDA k : /\ k \in DOMAIN zoho_titles
                               /\ Strip(zoho_titles[k].website_title) # <<>>)

\* lines 172-258 for one category and its columns
GridOver(skus, all_attr_names, zoho_titles, zoho_attrs, web_attrs, google_attrs) ==
    CHOOSE grid \in
        {[data |-> rows, attr_names |-> NonEmptyAttrs(rows, all_attr_names)] :
            rows \in {GridRows(titled, all_attr_names, zoho_titles, zoho_attrs, web_attrs,
                               google_attrs) : titled \in {TitledOf(skus, zoho_titles)}}} : TRUE

\* lines 133-258 for one category
GridOf(cat, items, zoho_titles, zoho_attrs, web_attrs, google_attrs) ==
    CHOOSE grid \in
        UNION {{GridOver(skus, all_attr_names, zoho_titles, zoho_attrs, web_attrs, google_attrs) :
                   all_attr_names \in {AllAttrNames(cat, SeqToSet(skus), zoho_attrs, web_attrs,
                                                    google_attrs)}} :
               skus \in {CategorySkus(items, cat)}} : TRUE

\* the grids of the categories of the items
GridsOver(items, zoho_titles, zoho_attrs, web_attrs, google_attrs) ==
    CHOOSE res \in
        {[raised |-> FALSE, grids |-> by_cat] :
            by_cat \in {[cat \in {CategoryOf(items[i]) : i \in 1..Len(items)} |->
                            GridOf(cat, items, zoho_titles, zoho_attrs, web_attrs,
                                   google_attrs)]}} : TRUE

\* lines 86-260: the grids by category, or the exception of a reader
build_grid(f) ==
    IF WebsiteFileRaises(f.website) \/ GoogleFileRaises(f.google)
    THEN [raised |-> TRUE, grids |-> <<>>]
    ELSE CHOOSE res \in
             {GridsOver(items, zoho_titles, zoho_attrs, web_attrs, google_attrs) :
                 items \in {ActiveItems(f.zoho_cache)},
                 zoho_titles \in {_load_zoho_website_titles(f.zoho_cache)},
                 zoho_attrs \in {_load_zoho_attrs(f.zoho_cache)},
                 web_attrs \in {_load_website_attrs(f.website)},
                 google_attrs \in {_load_google_attrs(f.google)}} : TRUE


---------------------------------------------------------------------------
(* The normalizer, applied once and then again to its own result           *)

NormIdle == nv_val = <<>> /\ nv_once = None /\ nv_twice = None /\ nv_pc = "idle"
MatchIdle == parsed_val = <<>> /\ actual_val = <<>> /\ match_result = None /\ mv_pc = "idle"
WeightIdle == pw_val = <<>> /\ pw_result = None /\ pw_pc = "idle"
NameIdle == pn_title = <<>> /\ pn_attrs = None /\ pn_pc = "idle"
CompareIdle ==
    /\ sources = <<>> /\ config = DefaultConfig /\ merged = None /\ missing = None
    /\ price_differences = None /\ name_differences = None /\ pc = "idle"
    /\ files = FilesOf(<<>>) /\ log = <<>> /\ attribute_differences = None
    /\ name_vs_attrs = None /\ reports = {} /\ grids = None
CellIdle == cell_attr = <<>> /\ cell_vals = <<>> /\ cell_status = None /\ cell_pc = "idle"

NormalizeOnce ==
    /\ nv_pc = "start"
    /\ nv_once' = _normalize_value(nv_val)
    /\ nv_pc' = "once"
    /\ UNCHANGED <<nv_val, nv_twice, matchVars, weightVars, nameVars, compareVars, runVars, cellVars>>

NormalizeTwice ==
    /\ nv_pc = "once"
    /\ nv_twice' = _normalize_value(nv_once)
    /\ nv_pc' = "twice"
    /\ UNCHANGED <<nv_val, nv_once, matchVars, weightVars, nameVars, compareVars, runVars, cellVars>>

InitNormalize ==
    /\ nv_val \in TextsUpTo(NormAlphabet, MaxValLen)
    /\ nv_once = None /\ nv_twice = None /\ nv_pc = "start"
    /\ MatchIdle /\ WeightIdle /\ NameIdle /\ CompareIdle /\ CellIdle

NextNormalize == NormalizeOnce \/ NormalizeTwice

SpecNormalize == InitNormalize /\ [][NextNormalize]_vars

\* C1: _normalize_value is idempotent: normalizing the result of normalizing s
\* gives the same text as normalizing s once.
C1_NormalizeIdempotent == nv_pc = "twice" => nv_twice = nv_once

---------------------------------------------------------------------------
(* The Equivalence Resolver on one pair of values                          *)

MatchValue ==
    /\ mv_pc = "start"
    /\ match_result' = _match_value(parsed_val, actual_val)
    /\ mv_pc' = "done"
    /\ UNCHANGED <<parsed_val, actual_val, normVars, weightVars, nameVars, compareVars, runVars, cellVars>>

InitMatch ==
    /\ IsMatchInput(parsed_val, actual_val)
    /\ match_result = None /\ mv_pc = "start"
    /\ NormIdle /\ WeightIdle /\ NameIdle /\ CompareIdle /\ CellIdle

NextMatch == MatchValue

SpecMatch == InitMatch /\ [][NextMatch]_vars

\* C5 as stated: _match_value(x, x) is Match for every non-empty x.
C5_ReflexiveNonEmpty ==
    (mv_pc = "done" /\ parsed_val = actual_val /\ parsed_val # <<>>) => match_result = Match

\* C5 amended: _match_value(x, x) is Match for every x whose normalized form is
\* not empty (and Incomparable for the others).
C5_ReflexiveNormalized ==
    (mv_pc = "done" /\ parsed_val = actual_val) =>
        IF _normalize_value(parsed_val) # <<>> THEN match_result = Match
        ELSE match_result = Incomparable

C5_Witness ==
    /\ mv_pc = "done" /\ parsed_val = actual_val
    /\ Contains(parsed_val, <<"|">>) /\ match_result = Match

\* the parts of the first value, split at '|' and normalized
DualParts(parsed) == {_normalize_value(x) : x \in {Split(parsed, "|")[k] : k \in 1..Len(Split(parsed, "|"))}}

\* C6 as stated: when the first value contains '|' the result is Match iff some
\* part, normalized, equals the normalized second value or has the same
\* numeric-token sequence, and Mismatch otherwise (stated here for the pairs
\* whose second value does not normalize to the empty text).
C6_DualAsStated ==
    (mv_pc = "done" /\ Contains(parsed_val, <<"|">>) /\ _normalize_value(actual_val) # <<>>) =>
        LET a == _normalize_value(actual_val)
        IN  match_result =
                IF \E part \in DualParts(parsed_val) : part = a \/ NumTokens(part) = NumTokens(a)
                THEN Match ELSE Mismatch

\* C6 amended: when the first value contains '|' and the second value's
\* normalized form is not empty, the result is Match iff the two normalized
\* forms are equal, or some part, normalized, equals the normalized second value
\* or has the same non-empty numeric-token sequence; otherwise it is Mismatch
\* (the synonym, tolerance and containment rules are not tried).  With an empty
\* normalized second value the result is Incomparable.
C6_DualValue ==
    (mv_pc = "done" /\ Contains(parsed_val, <<"|">>)) =>
        LET a == _normalize_value(actual_val)
        IN  match_result =
                IF a = <<>> THEN Incomparable
                ELSE IF \/ _normalize_value(parsed_val) = a
                        \/ \E part \in DualParts(parsed_val) :
                              \/ part = a
                              \/ NumTokens(a) # <<>> /\ NumTokens(part) = NumTokens(a)
                THEN Match ELSE Mismatch

\* C6, the two examples of the claim
C6_Examples ==
    /\ _match_value(T_45mm_38mm_Pins, T_38mm) = Match
    /\ _match_value(T_45mm_38mm_Pins, T_50mm) = Mismatch

C6_DualValueAndExamples == C6_DualValue /\ C6_Examples

\* a dual value that matches no part although a later rule (containment) would match
C6_Witness ==
    /\ mv_pc = "done" /\ Contains(parsed_val, <<"|">>)
    /\ _normalize_value(actual_val) # <<>>
    /\ Contains(_normalize_value(parsed_val), _normalize_value(actual_val))
    /\ match_result = Mismatch

\* C7: the result is Incomparable iff one of the two values normalizes to the
\* empty text, and it is always one of the three verdicts (nothing is raised).
C7_IncomparableIffEmpty ==
    mv_pc = "done" =>
        /\ match_result \in {Match, Mismatch, Incomparable}
        /\ match_result = Incomparable <=>
               (_normalize_value(parsed_val) = <<>> \/ _normalize_value(actual_val) = <<>>)

\* a value that is not empty but normalizes to the empty text, and a pair whose
\* numeric token is no number (float() raises inside the function)
C7_Witness ==
    /\ mv_pc = "done" /\ match_result = Incomparable
    /\ parsed_val # <<>> /\ actual_val # <<>>
    /\ _normalize_value(parsed_val) # <<>>

C7_WitnessBadFloat ==
    /\ mv_pc = "done" /\ match_result \in {Match, Mismatch}
    /\ NumTokens(_normalize_value(parsed_val)) # <<>>
    /\ ~FloatOk(NumTokens(_normalize_value(parsed_val))[1])
    /\ Len(NumTokens(_normalize_value(parsed_val))) = 1
    /\ Len(NumTokens(_normalize_value(actual_val))) = 1

---------------------------------------------------------------------------
(* Weight parsing on one raw attribute text                                *)

ParseWeight ==
    /\ pw_pc = "start"
    /\ pw_result' = _parse_weight(pw_val)
    /\ pw_pc' = "done"
    /\ UNCHANGED <<pw_val, normVars, matchVars, nameVars, compareVars, runVars, cellVars>>

InitWeight ==
    /\ pw_val \in TextsUpTo(WeightAlphabet, MaxWeightLen) \cup WeightExamples
    /\ pw_result = None /\ pw_pc = "start"
    /\ NormIdle /\ MatchIdle /\ NameIdle /\ CompareIdle /\ CellIdle

NextWeight == ParseWeight

SpecWeight == InitWeight /\ [][NextWeight]_vars

\* the text as _parse_weight reads it: trimmed, lower-cased, commas removed
WeightText(val) == RemoveChars(Lower(Strip(val)), {","})

\* C8: _parse_weight takes the first numeric token of the text (as the function
\* reads it: trimmed, lower-cased, commas removed); with 'kg' in that text the
\* result is the number times 2.20462 rounded to 2 decimals, otherwise the number
\* rounded to 2 decimals; empty text, no numeric token or a token that is no
\* number give None.  "50 kg" gives 110.23.
C8_ParseWeight ==
    /\ pw_pc = "done" =>
         LET toks == NumTokens(WeightText(pw_val))
         IN  IF toks = <<>> \/ ~FloatOk(toks[1]) THEN pw_result = None
             ELSE LET digits == SelectSeq(toks[1], IsDigit)
                      dec == Len(SelectSeq(SubSeq(toks[1],
                                 SetMin({i \in 1..(Len(toks[1]) + 1) : i > Len(toks[1]) \/ toks[1][i] = "."}),
                                 Len(toks[1])), IsDigit))
                  IN  IF \E i \in 1..(Len(WeightText(pw_val)) - 1) :
                             WeightText(pw_val)[i] = "k" /\ WeightText(pw_val)[i + 1] = "g"
                      THEN /\ pw_result # None
                           /\ pw_result = <<RoundHundredths(DigitsVal(digits) * 220462, dec + 5)>>
                      ELSE /\ pw_result # None
                           /\ pw_result = <<RoundHundredths(DigitsVal(digits), dec)>>
    /\ _parse_weight(T_50_kg) = <<11023>>
    /\ _parse_weight(T_170_23_lb) = <<17023>>
    /\ _parse_weight(T_1_500_KG) = <<330693>>

\* a weight in kilograms has been converted
C8_Witness ==
    /\ pw_pc = "done" /\ pw_val = T_50_kg /\ pw_result # None /\ pw_result = <<11023>>

\* a text whose first numeric token is no number although a later one is
C8_WitnessBadToken ==
    /\ pw_pc = "done" /\ pw_result = None
    /\ Len(NumTokens(pw_val)) = 2 /\ FloatOk(NumTokens(pw_val)[2])

\* no input of the bound lies at a rounding tie, where the double would decide
C8_NoRoundingTie ==
    pw_pc = "done" =>
        LET toks == NumTokens(WeightText(pw_val))
        IN  (toks # <<>> /\ FloatOk(toks[1])) =>
                IF Contains(WeightText(pw_val), <<"k", "g">>)
                THEN ~IsRoundingTie(Float(toks[1]).num * KgToLbNum, Float(toks[1]).dec + KgToLbDec)
                ELSE ~IsRoundingTie(Float(toks[1]).num, Float(toks[1]).dec)

---------------------------------------------------------------------------
(* Attribute extraction from one title                                     *)

ParseName ==
    /\ pn_pc = "start"
    /\ pn_attrs' = parse_name(pn_title)
    /\ pn_pc' = "done"
    /\ UNCHANGED <<pn_title, normVars, matchVars, weightVars, compareVars, runVars, cellVars>>

InitName ==
    /\ pn_title \in TextsUpTo(TitleAlphabet, MaxTitleLen) \cup TitleExamples
    /\ pn_attrs = None /\ pn_pc = "start"
    /\ NormIdle /\ MatchIdle /\ WeightIdle /\ CompareIdle /\ CellIdle

NextName == ParseName

SpecName == InitName /\ [][NextName]_vars

\* digits, or digits "." digits
IsPlainNumber(x) ==
    /\ x # <<>>
    /\ \A i \in 1..Len(x) : IsNumChar(x[i])
    /\ IsDigit(x[1]) /\ IsDigit(x[Len(x)])
    /\ Cardinality({i \in 1..Len(x) : x[i] = "."}) <= 1

\* C9: "Bucket Size" is set only when the title (trimmed, as parse_name reads it)
\* starts with a number immediately followed by a quote glyph and then
\* whitespace, and then it is that number followed by a straight double quote;
\* '800 Joules Energy Hammer' yields no "Bucket Size".
C9_BucketSizeGuard ==
    /\ pn_pc = "done" =>
         LET t == Strip(pn_title)
             ends == {k \in 1..(Len(t) - 2) :
                         /\ IsPlainNumber(SubSeq(t, 1, k))
                         /\ t[k + 1] \in {"\"", "LDQ", "RDQ", "DPRIME"}
                         /\ t[k + 2] \in Whitespace}
         IN  /\ pn_attrs["Bucket Size"] # None <=> ends # {}
             /\ \A k \in ends : pn_attrs["Bucket Size"] = SubSeq(t, 1, k) \o <<"\"">>
    /\ parse_name(T_800_Joules)["Bucket Size"] = None
    /\ parse_name(T_42_Ditching_Bucket)["Bucket Size"] = <<"4", "2", "\"">>

\* a title with a size in a curly quote has had its "Bucket Size" set
C9_Witness ==
    /\ pn_pc = "done"
    /\ Len(pn_title) >= 2
    /\ pn_title[2] = "RDQ"
    /\ pn_attrs["Bucket Size"] # None
    /\ pn_attrs["Bucket Size"] = <<"8", "\"">>

\* the title of the claim has been parsed and has no "Bucket Size"
C9_WitnessJoules ==
    pn_pc = "done" /\ pn_title = T_800_Joules /\ pn_attrs["Bucket Size"] = None

---------------------------------------------------------------------------
(* main: load, then compare_all: merge_by_sku and the detectors            *)

\* a row of a loaded source: the columns loaders._normalize returns
SourceRow(sku, name, price, sale_price, category, status) ==
    [sku |-> sku, product_name |-> name, price |-> price, sale_price |-> sale_price,
     category |-> category, status |-> status]

\* the most rows the sources of an initial state hold together
MaxRows == 3

RowsUpTo(Pool, n) == UNION {[1..k -> Pool] : k \in 0..n}

\* loaders.load_all: every source is loaded or left out; a loaded source has
\* any rows of Pool, in any order
LoadAll(Pool, n) ==
    \E z \in RowsUpTo(Pool, n) :
    \E w \in RowsUpTo(Pool, n - Len(z)) :
    \E g \in RowsUpTo(Pool, n - Len(z) - Len(w)) :
    \E loaded \in SUBSET SourceSet :
        /\ z # <<>> => "zoho" \in loaded
        /\ w # <<>> => "website" \in loaded
        /\ g # <<>> => "google" \in loaded
        /\ sources = [s \in loaded |-> CASE s = "zoho" -> z [] s = "website" -> w [] OTHER -> g]

\* main.py lines 23-26: fewer than two sources, nothing is compared
MainTooFewSources ==
    /\ pc = "loaded"
    /\ Cardinality(DOMAIN sources) < 2
    /\ log' = log \o <<"At least 2 sources required for comparison.",
                        "Configure paths in config.py">>
    /\ pc' = "stopped"
    /\ UNCHANGED <<sources, config, merged, missing, price_differences, name_differences>>
    /\ UNCHANGED <<files, attribute_differences, name_vs_attrs, reports, grids>>
    /\ UNCHANGED <<normVars, matchVars, weightVars, nameVars, cellVars>>

\* main.py line 29, comparator.py line 394
MergeBySku ==
    /\ pc = "loaded"
    /\ ~(Cardinality(DOMAIN sources) < 2)
    /\ merged' = merge_by_sku(sources)
    /\ pc' = "merged"
    /\ UNCHANGED <<sources, config, missing, price_differences, name_differences>>
    /\ UNCHANGED <<normVars, matchVars, weightVars, nameVars, runVars, cellVars>>

\* comparator.py line 397
FindMissing ==
    /\ pc = "merged"
    /\ missing' = find_missing(merged, sources)
    /\ pc' = "missing"
    /\ UNCHANGED <<sources, config, merged, price_differences, name_differences>>
    /\ UNCHANGED <<normVars, matchVars, weightVars, nameVars, runVars, cellVars>>

\* comparator.py line 400
FindPriceDifferences ==
    /\ pc = "missing"
    /\ price_differences' = find_price_differences(merged, sources, config)
    /\ pc' = "price"
    /\ UNCHANGED <<sources, config, merged, missing, name_differences>>
    /\ UNCHANGED <<normVars, matchVars, weightVars, nameVars, runVars, cellVars>>

\* comparator.py line 403
FindNameDifferences ==
    /\ pc = "price"
    /\ name_differences' = find_name_differences(merged, sources, config)
    /\ pc' = "name"
    /\ UNCHANGED <<sources, config, merged, missing, price_differences>>
    /\ UNCHANGED <<normVars, matchVars, weightVars, nameVars, runVars, cellVars>>

NextCompare ==
    \/ MainTooFewSources
    \/ MergeBySku
    \/ FindMissing
    \/ FindPriceDifferences
    \/ FindNameDifferences

\* main.py line 21
MainLoadAll ==
    /\ pc = "start"
    /\ sources' = load_all(files).sources
    /\ log' = load_all(files).log
    /\ files' = [files EXCEPT !.zoho_cache = CacheAfterLoad(files)]
    /\ pc' = "loaded"
    /\ UNCHANGED <<config, merged, missing, price_differences, name_differences>>
    /\ UNCHANGED <<attribute_differences, name_vs_attrs, reports, grids>>
    /\ UNCHANGED <<normVars, matchVars, weightVars, nameVars, cellVars>>

\* comparator.py line 406: the readers of lines 212-214 are not guarded
FindAttributeDifferences ==
    /\ pc = "name"
    /\ \E r \in {find_attribute_differences(merged, sources, files)} :
           IF r.raised
           THEN pc' = "raised" /\ UNCHANGED attribute_differences
           ELSE pc' = "compared" /\ attribute_differences' = r.rows
    /\ UNCHANGED <<sources, config, merged, missing, price_differences, name_differences>>
    /\ UNCHANGED <<files, log, name_vs_attrs, reports, grids>>
    /\ UNCHANGED <<normVars, matchVars, weightVars, nameVars, cellVars>>

\* main.py lines 32-34
CompareNameVsAttributes ==
    /\ pc = "compared"
    /\ \E r \in {compare_name_vs_attributes(files)} :
           IF r.raised
           THEN pc' = "raised" /\ UNCHANGED name_vs_attrs
           ELSE pc' = "parsed" /\ name_vs_attrs' = r.rows
    /\ UNCHANGED <<sources, config, merged, missing, price_differences, name_differences>>
    /\ UNCHANGED <<files, log, attribute_differences, reports, grids>>
    /\ UNCHANGED <<normVars, matchVars, weightVars, nameVars, cellVars>>

\* main.py line 43: report.generate_report writes the Excel report
GenerateReport ==
    /\ pc = "parsed"
    /\ reports' = reports \cup {"comparison_report.xlsx"}
    /\ pc' = "report"
    /\ UNCHANGED <<sources, config, merged, missing, price_differences, name_differences>>
    /\ UNCHANGED <<files, log, attribute_differences, name_vs_attrs, grids>>
    /\ UNCHANGED <<normVars, matchVars, weightVars, nameVars, cellVars>>

\* main.py line 45: report_html.generate_html writes the HTML report
GenerateHtml ==
    /\ pc = "report"
    /\ reports' = reports \cup {"comparison_report.html"}
    /\ pc' = "html"
    /\ UNCHANGED <<sources, config, merged, missing, price_differences, name_differences>>
    /\ UNCHANGED <<files, log, attribute_differences, name_vs_attrs, grids>>
    /\ UNCHANGED <<normVars, matchVars, weightVars, nameVars, cellVars>>

\* main.py line 49
BuildGrid ==
    /\ pc = "html"
    /\ \E r \in {build_grid(files)} :
           IF r.raised
           THEN pc' = "raised" /\ UNCHANGED grids
           ELSE pc' = "grid" /\ grids' = r.grids
    /\ UNCHANGED <<sources, config, merged, missing, price_differences, name_differences>>
    /\ UNCHANGED <<files, log, attribute_differences, name_vs_attrs, reports>>
    /\ UNCHANGED <<normVars, matchVars, weightVars, nameVars, cellVars>>

\* main.py lines 50-52: grid_view.generate_grid_html writes the grid page
GenerateGridHtml ==
    /\ pc = "grid"
    /\ reports' = reports \cup {"attribute_grid.html"}
    /\ pc' = "done"
    /\ UNCHANGED <<sources, config, merged, missing, price_differences, name_differences>>
    /\ UNCHANGED <<files, log, attribute_differences, name_vs_attrs, grids>>
    /\ UNCHANGED <<normVars, matchVars, weightVars, nameVars, cellVars>>

NextMain ==
    \/ MainLoadAll
    \/ MainTooFewSources
    \/ MergeBySku
    \/ FindMissing
    \/ FindPriceDifferences
    \/ FindNameDifferences
    \/ FindAttributeDifferences
    \/ CompareNameVsAttributes
    \/ GenerateReport
    \/ GenerateHtml
    \/ BuildGrid
    \/ GenerateGridHtml

CompareStart ==
    /\ merged = None /\ missing = None /\ price_differences = None
    /\ name_differences = None /\ pc = "loaded"
    /\ files = FilesOf(sources) /\ log = load_all(files).log
    /\ attribute_differences = None /\ name_vs_attrs = None /\ reports = {} /\ grids = None
    /\ NormIdle /\ MatchIdle /\ WeightIdle /\ NameIdle /\ CellIdle

\* names of products
N_Auger == <<"A", "u", "g", "e", "r">>
N_Bucket == <<"B", "u", "c", "k", "e", "t">>
N_abcdefg == <<"a", "b", "c", "d", "e", "f", "g">>
N_abcdef == <<"a", "b", "c", "d", "e", "f">>
N_ABCDEFG == <<"A", "B", "C", "D", "E", "F", "G">>
N_abc == <<"a", "b", "c">>

(* merge_by_sku: rows with and without an identifier, two rows of a kind   *)
MergePool ==
    {SourceRow(k, N_Auger, <<100000>>, NaN, "Augers", "") : k \in {EmptySku, "A", "B"}}
    \cup {SourceRow(k, N_Bucket, NaN, <<90000>>, "Buckets", "active") : k \in {EmptySku, "A", "B"}}

\* three sources, SKU-100 in zoho and on the website under different names,
\* not in google
Ex_Sku100Names ==
    [s \in SourceSet |->
        CASE s = "zoho" -> <<SourceRow("SKU-100", N_Auger, <<500000>>, NaN, "Augers", "active")>>
          [] s = "website" -> <<SourceRow("SKU-100", N_Bucket, <<515000>>, NaN, "Augers", "")>>
          [] OTHER -> <<SourceRow("B", N_Bucket, NaN, NaN, "Buckets", "")>>]

InitMerge ==
    /\ \/ LoadAll(MergePool, MaxRows)
       \/ sources = Ex_Sku100Names
    /\ config = DefaultConfig
    /\ CompareStart

SpecMerge == InitMerge /\ [][NextCompare]_vars

(* find_price_differences: prices as loaders._clean_price leaves them (None *)
(* or a number of two decimals), and the tables of the examples, where a    *)
(* price of three decimals is handed to the detector.  On these prices the  *)
(* differences, the comparisons and round() in doubles are those of the     *)
(* exact arithmetic here.                                                   *)
PricePool ==
    {SourceRow("A", N_Auger, pr, NaN, "Augers", "") :
        pr \in {NaN, <<0>>, <<100000>>, <<101000>>, <<105000>>}}
    \cup {SourceRow("B", N_Bucket, <<100000>>, NaN, "Buckets", "")}

PriceRowOf(sku, pr) == SourceRow(sku, N_Auger, pr, NaN, "Augers", "")

\* prices 100.00 and 100.005
Ex_WithinTolerance ==
    [s \in {"zoho", "website"} |->
        IF s = "zoho" THEN <<PriceRowOf("A", <<100000>>)>> ELSE <<PriceRowOf("A", <<100005>>)>>]

\* prices 100.00 and 101.00
Ex_OneDollar ==
    [s \in {"zoho", "website"} |->
        IF s = "zoho" THEN <<PriceRowOf("A", <<100000>>)>> ELSE <<PriceRowOf("A", <<101000>>)>>]

\* three sources, SKU-100 at 500.00 in zoho, 515.00 on the website, absent
\* from google
Ex_Sku100 ==
    [s \in SourceSet |->
        CASE s = "zoho" -> <<PriceRowOf("SKU-100", <<500000>>)>>
          [] s = "website" -> <<PriceRowOf("SKU-100", <<515000>>)>>
          [] OTHER -> <<PriceRowOf("B", <<100000>>)>>]

PriceExamples == {Ex_WithinTolerance, Ex_OneDollar, Ex_Sku100}

\* settings of config.py: the tolerance 0.01 or 1.00, the percent tolerance
\* 0.0, 0.5 or 3.0
PriceConfigs ==
    {[PRICE_TOLERANCE |-> tol, PRICE_TOLERANCE_PERCENT |-> pct, FUZZY_MATCH_THRESHOLD |-> 85] :
        tol \in {10, 1000}, pct \in {0, 5, 30}}

InitPrice ==
    /\ \/ LoadAll(PricePool, MaxRows)
       \/ sources \in PriceExamples
    /\ config \in PriceConfigs
    /\ CompareStart

SpecPrice == InitPrice /\ [][NextCompare]_vars

(* find_name_differences *)
NamePool ==
    {SourceRow("A", nm, <<100000>>, NaN, "Augers", "") :
        nm \in {N_abcdefg, N_abcdef, N_ABCDEFG, N_abc}}
    \cup {SourceRow("B", nm, <<100000>>, NaN, "Augers", "") : nm \in {N_abcdefg, N_abcdef}}

NameConfigs ==
    {[PRICE_TOLERANCE |-> 10, PRICE_TOLERANCE_PERCENT |-> 0, FUZZY_MATCH_THRESHOLD |-> thr] :
        thr \in {85, 92, 93}}

InitNames ==
    /\ LoadAll(NamePool, MaxRows)
    /\ config \in NameConfigs
    /\ CompareStart

SpecNames == InitNames /\ [][NextCompare]_vars

(* main: the files of a run                                                *)

\* a product as the three places hold it: the item of the Zoho API, its row
\* of the website export and its row of the Google sheet (<<>> where the
\* place has no row for it)
Product(title, category, status, attributes, cf, web, google) ==
    [title |-> title, category |-> category, status |-> status,
     attributes |-> attributes, cf |-> cf, web |-> web, google |-> google]

\* the item of the Zoho API of the i-th product
ItemOf(ps, i) ==
    [sku |-> SkuOrder[i], cf_website_title_only |-> ps[i].title,
     category_name |-> ps[i].category, status |-> ps[i].status,
     attributes |-> ps[i].attributes, cf |-> ps[i].cf,
     weight_with_unit |-> Chars("10 kg"), dimensions_with_unit |-> EmptyText]

\* the rows of the website export and of the Google sheet
WebRowOf(ps, i) == [sku |-> SkuOrder[i], attributes |-> ps[i].web[1], weight |-> Chars("22.05")]
GoogleRowOf(ps, i) == [sku |-> SkuOrder[i], columns |-> ps[i].google[1]]

\* the rows the loaders return: load_zoho passes over the inactive items
\* and gives no status
ZohoLoaded(ps) ==
    LET act == SelectSeq([i \in 1..Len(ps) |-> i], LAMBDA i : ps[i].status # "inactive")
    IN  [n \in 1..Len(act) |->
            SourceRow(SkuOrder[act[n]], N_Bucket, <<100000>>, NaN, ps[act[n]].category, "")]
PlaceLoaded(held) ==
    [n \in 1..Len(held) |-> SourceRow(SkuOrder[held[n]], N_Bucket, <<100000>>, NaN, "", "")]

\* the files of a run over the products ps: the API answers, the website
\* export and the Google workbook are read
FilesFor(ps) ==
    LET idx == [i \in 1..Len(ps) |-> i]
        on_web == SelectSeq(idx, LAMBDA i : ps[i].web # <<>>)
        on_google == SelectSeq(idx, LAMBDA i : ps[i].google # <<>>)
    IN  [zoho_api |-> File(IF ZohoLoaded(ps) = <<>> THEN "empty" ELSE "ok", ZohoLoaded(ps),
                           [i \in 1..Len(ps) |-> ItemOf(ps, i)]),
         zoho_cache |-> NoFile,
         zoho_csv |-> NoFile,
         website |-> File("ok", PlaceLoaded(on_web), [n \in 1..Len(on_web) |-> WebRowOf(ps, on_web[n])]),
         google |-> File("xlsx", PlaceLoaded(on_google),
                         [n \in 1..Len(on_google) |-> GoogleRowOf(ps, on_google[n])])]

T_8_Bucket == <<"8", "\"">> \o Chars(" Bucket")
V_8 == Chars("8")
V_10 == Chars("10")
V_quote == <<"\"">>
L_Bucket_Size == Chars("Bucket Size")
L_Bucket_Size_in == Chars("Bucket Size (in)")
L_Colour == Chars("Colour")

\* the attributes of a row of the website export: the value of a cell is a
\* text, None for an empty cell, <<>> where the file has no value column
WebAttributePool ==
    {<<>>,
     <<Entry(L_Bucket_Size_in, V_8)>>,
     <<Entry(L_Bucket_Size_in, V_10)>>,
     <<Entry(L_Bucket_Size_in, V_quote)>>,
     <<Entry(L_Bucket_Size, EmptyText), Entry(L_Bucket_Size_in, V_8)>>,
     <<Entry(L_Colour, None)>>}

\* the columns of a row of the Google sheet
GoogleColumnPool ==
    {<<>>,
     <<Entry(Chars("Bucket Size (in)/Filter"), V_8)>>,
     <<Entry(L_Bucket_Size_in, V_10)>>,
     <<Entry(L_Colour, None)>>}

\* attribute_name1 / attribute_option_name1 of an item
ZohoAttributePool == {<<>>, <<Entry(L_Bucket_Size, V_8)>>}

\* one product of every kind: titled or not, of a category with or without
\* a bucket size, with any attributes in the three places
ProductPool ==
    {Product(t, c, "active", za, <<>>, w, g) :
        t \in {T_8_Bucket, EmptyText},
        c \in {"Buckets", "Hydraulic Hammer"},
        za \in ZohoAttributePool,
        w \in {<<>>} \cup {<<x>> : x \in WebAttributePool},
        g \in {<<>>} \cup {<<x>> : x \in GoogleColumnPool}}

\* products that go with others in one run
SmallPool ==
    {Product(T_8_Bucket, "Buckets", "active", <<>>, <<>>, <<<<Entry(L_Bucket_Size_in, V_10)>>>>, <<>>),
     Product(T_12_Bucket_45mm_Pins, "Buckets", "active", <<>>,
             <<Entry("cf_front_pin_size", Chars("45"))>>, <<<<Entry(L_Colour, None)>>>>,
             <<<<Entry(L_Colour, Chars("red"))>>>>),
     Product(T_800_Joules, "", "active", <<>>, <<>>, <<>>, <<<<>>>>),
     Product(T_8_Bucket, "Buckets", "inactive", <<>>, <<>>, <<>>, <<>>)}

\* the most products of one run
MaxItems == 2

\* the conditions the files of a run may be in
ZohoApiConds == {"ok", "fails"}
ZohoCsvConds == {"ok", "absent", "unreadable"}
WebsiteConds == {"ok", "absent", "unreadable", "no_columns"}
GoogleConds == {"xlsx", "csv", "absent", "unreadable", "no_columns"}

\* one product in all three places, the files in any condition: a file that
\* is absent or cannot be read has no rows
Ex_Product == Product(T_8_Bucket, "Buckets", "active", <<>>, <<>>,
                      <<<<Entry(L_Bucket_Size_in, V_10)>>>>, <<<<>>>>)

\* the items an earlier run left in zoho_api_cache.json: the product with
\* the weight it had then
StaleItems ==
    <<[ItemOf(<<Ex_Product>>, 1) EXCEPT !.weight_with_unit = Chars("12 kg")]>>

FilesIn(api, csv, web, ggl, stale) ==
    LET f == FilesFor(<<Ex_Product>>)
        rowless == {"absent", "unreadable"}
    IN  [zoho_api |-> IF api = "ok" THEN f.zoho_api ELSE File("fails", <<>>, <<>>),
         zoho_cache |-> IF stale THEN File("ok", <<>>, StaleItems) ELSE NoFile,
         zoho_csv |-> IF csv \in rowless THEN File(csv, <<>>, <<>>)
                      ELSE File(csv, f.zoho_api.loaded, <<>>),
         website |-> IF web \in rowless THEN File(web, <<>>, <<>>)
                     ELSE File(web, f.website.loaded, f.website.rows),
         google |-> IF ggl \in rowless THEN File(ggl, <<>>, <<>>)
                    ELSE File(ggl, f.google.loaded, f.google.rows)]

MainStart ==
    /\ sources = <<>> /\ config = DefaultConfig /\ merged = None /\ missing = None
    /\ price_differences = None /\ name_differences = None /\ pc = "start"
    /\ log = <<>> /\ attribute_differences = None /\ name_vs_attrs = None
    /\ reports = {} /\ grids = None
    /\ NormIdle /\ MatchIdle /\ WeightIdle /\ NameIdle /\ CellIdle

InitMain ==
    /\ \/ \E p \in ProductPool : files = FilesFor(<<p>>)
       \/ \E n \in 2..MaxItems : \E ps \in [1..n -> SmallPool] : files = FilesFor(ps)
       \/ \E api \in ZohoApiConds, csv \in ZohoCsvConds, web \in WebsiteConds,
             ggl \in GoogleConds, stale \in BOOLEAN :
              files = FilesIn(api, csv, web, ggl, stale)
    /\ MainStart

SpecMain == InitMain /\ [][NextMain]_vars


---------------------------------------------------------------------------
(* Properties of the merged table and the detectors                        *)

\* how far compare_all has come
IsMerged == pc \in {"merged", "missing", "price", "name"}
PricesCompared == pc \in {"price", "name"}
NamesCompared == pc = "name"

\* whether source s holds a row with identifier k
SourceHas(s, k) == \E j \in 1..Len(sources[s]) : sources[s][j].sku = k

\* the rows of table with identifier k
RowsOf(table, k) == {i \in 1..Len(table) : table[i].sku = k}

\* C2: merge_by_sku is total and exact: every non-empty identifier of some
\* source is the identifier of exactly one merged row, no merged row has an
\* empty identifier or one that no source holds, and in every row the flag
\* in_S says whether source S holds a row with the identifier.  Stated of
\* merge_by_sku(sources) for the sources of every state, and of the table the
\* program has built once it has.
C2_MergeExact ==
    LET m == merge_by_sku(sources)
    IN  /\ IsMerged => merged = m
        /\ \A s \in DOMAIN sources : \A j \in 1..Len(sources[s]) :
              sources[s][j].sku # EmptySku => Cardinality(RowsOf(m, sources[s][j].sku)) = 1
        /\ \A i \in 1..Len(m) :
              /\ m[i].sku # EmptySku
              /\ \E s \in DOMAIN sources : SourceHas(s, m[i].sku)
              /\ DOMAIN m[i].cell = DOMAIN sources
              /\ \A s \in DOMAIN sources : m[i].cell[s].in <=> SourceHas(s, m[i].sku)

\* an identifier held by two sources, one of which also holds a row without
\* identifier, has been merged into one row
C2_Witness ==
    /\ IsMerged
    /\ Len(merged) = 1
    /\ \E s \in DOMAIN sources : \E u \in DOMAIN sources :
          /\ s # u
          /\ Cardinality({j \in 1..Len(sources[s]) : sources[s][j].sku = "A"}) = 1
          /\ SourceHas(s, EmptySku)
          /\ SourceHas(u, "A")
          /\ merged[1].cell[s].in /\ merged[1].cell[u].in

\* two different rows of one identifier in one source, another identifier in
\* another source
C2_WitnessRepeated ==
    /\ IsMerged
    /\ \E s \in DOMAIN sources :
          /\ Len(sources[s]) = 2
          /\ sources[s][1].sku = "B" /\ sources[s][2].sku = "B"
          /\ sources[s][1] # sources[s][2]
          /\ \E u \in DOMAIN sources \ {s} : SourceHas(u, "A")

\* the sources of a merged row that are present with a price
Priced(row) == {s \in DOMAIN sources : row.cell[s].in /\ row.cell[s].price # NaN}

\* max - min over the prices of a merged row with at least one price
Spread(row) ==
    LET vals == {row.cell[s].price[1] : s \in Priced(row)}
    IN  (CHOOSE x \in vals : \A y \in vals : y <= x) - (CHOOSE x \in vals : \A y \in vals : x <= y)

LeastPrice(row) ==
    LET vals == {row.cell[s].price[1] : s \in Priced(row)}
    IN  CHOOSE x \in vals : \A y \in vals : x <= y

\* n thousandths rounded to hundredths
ToHundredths(n) ==
    IF n % 10 > 5 \/ (n % 10 = 5 /\ (n \div 10) % 2 = 1) THEN n \div 10 + 1 ELSE n \div 10

\* the condition of C3 on a merged row
C3_Expected(row) ==
    /\ Cardinality(Priced(row)) >= 2
    /\ Spread(row) > config.PRICE_TOLERANCE
    /\ config.PRICE_TOLERANCE_PERCENT # 0 =>
          Spread(row) * 1000 > config.PRICE_TOLERANCE_PERCENT * LeastPrice(row)

C3_Rule ==
    PricesCompared =>
        \A i \in 1..Len(merged) :
            LET out == RowsOf(price_differences, merged[i].sku)
            IN  IF C3_Expected(merged[i])
                THEN /\ Cardinality(out) = 1
                     /\ \A o \in out :
                           price_differences[o].price_diff = ToHundredths(Spread(merged[i]))
                ELSE out = {}

C3_Examples ==
    (PricesCompared /\ config = DefaultConfig) =>
        /\ sources = Ex_WithinTolerance => price_differences = <<>>
        /\ sources = Ex_OneDollar =>
              Len(price_differences) = 1 /\ price_differences[1].price_diff = 100
        /\ sources = Ex_Sku100 =>
              /\ Len(price_differences) = 1
              /\ price_differences[1].sku = "SKU-100"
              /\ price_differences[1].price_diff = 1500

C3_WitnessExamples ==
    /\ PricesCompared
    /\ config = DefaultConfig
    /\ sources = Ex_Sku100
    /\ Len(price_differences) = 1

\* whether the price difference of the row is within the absolute tolerance
WithinAbsolute(row) == Spread(row) <= config.PRICE_TOLERANCE

\* whether it is within the percent tolerance
WithinPercent(row) ==
    Spread(row) * 1000 <= config.PRICE_TOLERANCE_PERCENT * LeastPrice(row)

\* the rows C4 speaks of: a percent tolerance is configured, two prices, and
\* the least price is positive so that the percentage exists
C4_Case(row) ==
    /\ config.PRICE_TOLERANCE_PERCENT > 0
    /\ Cardinality(Priced(row)) >= 2
    /\ LeastPrice(row) > 0

C4_WitnessAbsoluteOnly ==
    /\ PricesCompared
    /\ Len(merged) = 1
    /\ C4_Case(merged[1])
    /\ WithinAbsolute(merged[1])
    /\ ~WithinPercent(merged[1])
    /\ Spread(merged[1]) > 0
    /\ price_differences = <<>>

\* the sources of a merged row that are present with a non-empty name
Named(row) ==
    {s \in DOMAIN sources :
        /\ row.cell[s].in
        /\ IF row.cell[s].name = None THEN FALSE ELSE row.cell[s].name # EmptyText}

\* the case-folded similarity of the names of the row in sources s and u
Similarity(row, s, u) == FuzzRatio(Lower(row.cell[s].name), Lower(row.cell[u].name))

C10_Expected(row) ==
    /\ Cardinality(Named(row)) >= 2
    /\ \E s \in Named(row) : \E u \in Named(row) \ {s} :
          /\ config.FUZZY_MATCH_THRESHOLD <= Similarity(row, s, u)
          /\ Similarity(row, s, u) < 100

C10_Rule ==
    NamesCompared =>
        \A i \in 1..Len(merged) :
            Cardinality(RowsOf(name_differences, merged[i].sku))
                = IF C10_Expected(merged[i]) THEN 1 ELSE 0

\* the names of the two sources of a table of one row and two sources
PairIs(n1, n2) ==
    /\ Len(merged) = 1
    /\ Cardinality(DOMAIN sources) = 2
    /\ \E s \in DOMAIN sources : \E u \in DOMAIN sources \ {s} :
          /\ merged[1].cell[s].in /\ merged[1].cell[u].in
          /\ merged[1].cell[s].name = n1 /\ merged[1].cell[u].name = n2

C10_Examples ==
    (NamesCompared /\ config.FUZZY_MATCH_THRESHOLD = 85) =>
        /\ PairIs(N_abc, N_abcdefg) =>
              FuzzRatio(N_abc, N_abcdefg) = 60 /\ name_differences = <<>>
        /\ PairIs(N_abcdef, N_abcdefg) =>
              FuzzRatio(N_abcdef, N_abcdefg) = 92 /\ Len(name_differences) = 1
        /\ PairIs(N_ABCDEFG, N_abcdefg) =>
              FuzzRatio(Lower(N_ABCDEFG), Lower(N_abcdefg)) = 100 /\ name_differences = <<>>
        /\ PairIs(N_abcdefg, N_abcdefg) => name_differences = <<>>

\* C10: find_name_differences has exactly one row for a merged row iff at
\* least two present sources have a non-empty name and some pair of these
\* names has a case-folded similarity r with FUZZY_MATCH_THRESHOLD <= r < 100,
\* and none if all pairs are identical or below the threshold; with threshold
\* 85 a ratio of 60 is not flagged, 92 is, 100 is not.
C10_NameDifferences == C10_Rule /\ C10_Examples

\* three sources with names, two of them of similarity 67, below the
\* threshold: one row for the pair that reaches it
C10_Witness ==
    /\ NamesCompared
    /\ config.FUZZY_MATCH_THRESHOLD = 85
    /\ Len(merged) = 1
    /\ Cardinality(Named(merged[1])) = 3
    /\ \E s \in Named(merged[1]) : \E u \in Named(merged[1]) :
          /\ merged[1].cell[s].name = N_abc /\ merged[1].cell[u].name = N_abcdef
    /\ Len(name_differences) = 1

\* names that differ in case only: ratio 100, no row
C10_WitnessIdentical ==
    /\ NamesCompared
    /\ PairIs(N_ABCDEFG, N_abcdefg)
    /\ name_differences = <<>>

\* a ratio equal to the threshold is flagged
C10_WitnessAtThreshold ==
    /\ NamesCompared
    /\ config.FUZZY_MATCH_THRESHOLD = 92
    /\ PairIs(N_abcdef, N_abcdefg)
    /\ Len(name_differences) = 1

---------------------------------------------------------------------------
(* Properties of find_missing and of repeated identifiers                  *)

MissingCompared == pc \in {"missing", "price", "name"}

\* the loaded sources, in source order, that hold identifier k, and those
\* that do not
HoldersOf(k) == SelectSeq(SourceOrder, LAMBDA s : s \in DOMAIN sources /\ SourceHas(s, k))
NonHoldersOf(k) == SelectSeq(SourceOrder, LAMBDA s : s \in DOMAIN sources /\ ~SourceHas(s, k))

\* the first row of source s with identifier k
FirstRecord(s, k) ==
    sources[s][CHOOSE j \in 1..Len(sources[s]) :
                  /\ sources[s][j].sku = k
                  /\ \A h \in 1..(j - 1) : sources[s][h].sku # k]

\* the first non-empty name of a merged row among the sources of present
FirstName(row, present) ==
    LET named == SelectSeq(present, LAMBDA s : row.cell[s].name # EmptyText)
    IN  IF named = <<>> THEN EmptyText ELSE row.cell[named[1]].name

C12_Rule ==
    MissingCompared =>
        /\ \A o \in 1..Len(missing) : \E i \in 1..Len(merged) : merged[i].sku = missing[o].sku
        /\ \A i \in 1..Len(merged) :
              LET k == merged[i].sku
                  out == RowsOf(missing, k)
              IN  IF NonHoldersOf(k) # <<>>
                  THEN /\ Cardinality(out) = 1
                       /\ \A o \in out :
                             /\ missing[o].present_in = JoinComma(HoldersOf(k))
                             /\ missing[o].absent_from = JoinComma(NonHoldersOf(k))
                             /\ missing[o].product_name = FirstName(merged[i], HoldersOf(k))
                  ELSE out = {}

C12_Example ==
    (MissingCompared /\ sources = Ex_Sku100Names) =>
        \E o \in 1..Len(missing) :
            /\ missing[o].sku = "SKU-100"
            /\ missing[o].present_in = "zoho, website"
            /\ missing[o].absent_from = "google"

\* C12: find_missing has exactly one row for each merged row that is absent
\* from at least one source and none for a row present in all sources; in a
\* row present_in and absent_from together list every source once, in source
\* order, and the name is the first non-empty name among the present sources.
\* SKU-100 in zoho and website, not in google: "zoho, website" and "google".
C12_FindMissing == C12_Rule /\ C12_Example

\* an identifier held by the second and the third of three sources under
\* different names has its row, with the name of the second source
C12_Witness ==
    /\ MissingCompared
    /\ DOMAIN sources = SourceSet
    /\ Len(merged) = 1
    /\ Len(missing) = 1
    /\ missing[1].present_in = "website, google"
    /\ missing[1].absent_from = "zoho"
    /\ merged[1].cell["website"].name # merged[1].cell["google"].name
    /\ missing[1].product_name = merged[1].cell["website"].name

\* an identifier held by every source has no row
C12_WitnessPresentInAll ==
    /\ MissingCompared
    /\ Cardinality(DOMAIN sources) = 3
    /\ Len(merged) = 1
    /\ missing = <<>>

\* the sources that load_all has left out
Unavailable == SourceSet \ DOMAIN sources

\* C17: with one of the three sources not acquired the detectors still run
\* over the other two, every merged row has the flag of the unavailable source
\* false, and find_missing lists that source in absent_from of every record
C17_UnavailableListedAbsent ==
    (MissingCompared /\ Cardinality(Unavailable) = 1) =>
        \A u \in Unavailable : \A i \in 1..Len(merged) :
            /\ u \in DOMAIN merged[i].cell
            /\ ~merged[i].cell[u].in
            /\ \E o \in RowsOf(missing, merged[i].sku) : \E absent \in SUBSET SourceSet :
                  /\ u \in absent
                  /\ missing[o].absent_from
                        = JoinComma(SelectSeq(SourceOrder, LAMBDA s : s \in absent))

\* C20: when a source holds several rows with one identifier, merge_by_sku
\* takes name, price, sale price, category and status for that source from
\* the first of them in the source's order, and the merged table still has
\* exactly one row for the identifier
C20_FirstRecordWins ==
    IsMerged =>
        \A i \in 1..Len(merged) : \A s \in DOMAIN sources :
            SourceHas(s, merged[i].sku) =>
                /\ merged[i].cell[s].name = FirstRecord(s, merged[i].sku).product_name
                /\ merged[i].cell[s].price = FirstRecord(s, merged[i].sku).price
                /\ merged[i].cell[s].sale_price = FirstRecord(s, merged[i].sku).sale_price
                /\ merged[i].cell[s].category = FirstRecord(s, merged[i].sku).category
                /\ merged[i].cell[s].status = FirstRecord(s, merged[i].sku).status
                /\ Cardinality(RowsOf(merged, merged[i].sku)) = 1

\* a source with two different rows of identifier A, a row of another
\* identifier between them, has been merged
C20_Witness ==
    /\ IsMerged
    /\ \E s \in DOMAIN sources :
          /\ Len(sources[s]) = 3
          /\ sources[s][1].sku = "A" /\ sources[s][2].sku = "B" /\ sources[s][3].sku = "A"
          /\ sources[s][1].product_name # sources[s][3].product_name
          /\ \E i \in 1..Len(merged) :
                merged[i].sku = "A" /\ merged[i].cell[s].name = sources[s][1].product_name


---------------------------------------------------------------------------
(* Properties of a run of main: the name-vs-attributes table               *)

\* how far main has come
NvaDone == pc \in {"parsed", "report", "html", "grid", "done"}
GridDone == pc \in {"grid", "done"}

\* the dicts the three readers of name_parser give for the files of the run
TitlesOfRun == _load_zoho_website_titles(files.zoho_cache)
WebAttrsOfRun == _load_website_attrs(files.website)
GoogleAttrsOfRun == _load_google_attrs(files.google)

\* the verdicts of the website and the Google comparison of a label of a title
VerdictsOf(title, label, web, google) ==
    CHOOSE v \in {[web |-> MatchIfValue(p, FirstAliasValue(web, PossibleNames(label))),
                   google |-> MatchIfValue(p, FirstAliasValue(google, PossibleNames(label)))] :
                     p \in {parse_name(title)[label]}} : TRUE

\* the rows of the table for a label of a product
RowsFor(sku, label) ==
    {i \in DOMAIN name_vs_attrs :
        name_vs_attrs[i].sku = sku /\ name_vs_attrs[i].attribute = label}

\* the status the claim gives the row of two verdicts, "" for no row
C13_Expected(v) ==
    IF v.web = Mismatch \/ v.google = Mismatch THEN "MISMATCH"
    ELSE IF v.web # Match /\ v.google # Match THEN "NOT FOUND"
    ELSE ""

\* C13: compare_name_vs_attributes has a row for an extracted attribute of a
\* product iff one of the website and the Google comparison is Mismatch (the
\* row's status is MISMATCH, whatever the other comparison gives) or neither
\* comparison gives a verdict (status NOT FOUND); an attribute that matches
\* in one source and matches or is absent in the other has no row, and the
\* table has no other rows.
C13_RowIffMismatchOrNotFound ==
    NvaDone =>
        \A zt \in {TitlesOfRun}, wa \in {WebAttrsOfRun}, ga \in {GoogleAttrsOfRun} :
            /\ \A sku \in TitledSkus(zt) :
                   \A label \in LabelsOf(zt[sku].website_title) :
                       \E v \in {VerdictsOf(zt[sku].website_title, label,
                                            AttrsOf(wa, sku), AttrsOf(ga, sku))} :
                           IF C13_Expected(v) = ""
                           THEN RowsFor(sku, label) = {}
                           ELSE /\ Cardinality(RowsFor(sku, label)) = 1
                                /\ \A i \in RowsFor(sku, label) :
                                       name_vs_attrs[i].status = C13_Expected(v)
            /\ \A i \in DOMAIN name_vs_attrs :
                   /\ name_vs_attrs[i].sku \in TitledSkus(zt)
                   /\ name_vs_attrs[i].attribute
                          \in LabelsOf(zt[name_vs_attrs[i].sku].website_title)

\* a row with status MISMATCH whose other source matches
C13_Witness ==
    /\ NvaDone
    /\ \E i \in DOMAIN name_vs_attrs :
           /\ name_vs_attrs[i].status = "MISMATCH"
           /\ name_vs_attrs[i].web_match = Chars("No")
           /\ name_vs_attrs[i].google_match = Chars("Yes")

\* a row with status NOT FOUND
C13_WitnessNotFound ==
    /\ NvaDone
    /\ \E i \in DOMAIN name_vs_attrs : name_vs_attrs[i].status = "NOT FOUND"

\* an extracted attribute that matches in one source, is absent in the other
\* and has no row
C13_WitnessNoRow ==
    /\ NvaDone
    /\ \E sku \in TitledSkus(TitlesOfRun) :
           \E label \in LabelsOf(TitlesOfRun[sku].website_title) :
               \E v \in {VerdictsOf(TitlesOfRun[sku].website_title, label,
                                    AttrsOf(WebAttrsOfRun, sku), AttrsOf(GoogleAttrsOfRun, sku))} :
                   /\ v.web = Match /\ v.google = Incomparable
                   /\ RowsFor(sku, label) = {}

\* whether some alias of the label carries a non-empty value in the dict of
\* a source for the product
AliasCarriesValue(attrs, label) ==
    \E k \in 1..Len(PossibleNames(label)) :
        /\ HasKey(attrs, PossibleNames(label)[k])
        /\ ValueOf(attrs, PossibleNames(label)[k]) # EmptyText

\* C14: a row has status NOT FOUND only when the value of the extracted label
\* could not be found in either other source: no alias of the label carries
\* a non-empty value in the website attributes or in the Google attributes
\* of the product, and website_value and google_value of the row are both
\* the placeholder for no value.
C14_NotFoundOnlyWithoutValue ==
    NvaDone =>
        \A wa \in {WebAttrsOfRun}, ga \in {GoogleAttrsOfRun} :
            \A i \in DOMAIN name_vs_attrs :
                name_vs_attrs[i].status = "NOT FOUND" =>
                    /\ ~AliasCarriesValue(AttrsOf(wa, name_vs_attrs[i].sku),
                                          name_vs_attrs[i].attribute)
                    /\ ~AliasCarriesValue(AttrsOf(ga, name_vs_attrs[i].sku),
                                          name_vs_attrs[i].attribute)
                    /\ name_vs_attrs[i].website_value = Placeholder
                    /\ name_vs_attrs[i].google_value = Placeholder

\* the two ways a NOT FOUND row comes with a value in a source: a value that
\* normalizes to nothing, and an alias with a value behind an earlier alias
\* without one
C14_ValueNormalizesToNothing ==
    /\ NvaDone
    /\ \E i \in DOMAIN name_vs_attrs :
           /\ name_vs_attrs[i].status = "NOT FOUND"
           /\ name_vs_attrs[i].website_value = V_quote

C14_AliasBehindEmptyAlias ==
    /\ NvaDone
    /\ \E i \in DOMAIN name_vs_attrs :
           /\ name_vs_attrs[i].status = "NOT FOUND"
           /\ name_vs_attrs[i].website_value = Placeholder
           /\ AliasCarriesValue(AttrsOf(WebAttrsOfRun, name_vs_attrs[i].sku),
                                name_vs_attrs[i].attribute)


---------------------------------------------------------------------------
(* Properties of a run of main: the steps                                  *)

\* the lines load_all prints for a source it could not load
LinesOfFailure(s) ==
    IF s = "zoho" THEN {"[SKIP] zoho", "[ERROR] zoho CSV"}
    ELSE {"[SKIP] " \o s, "[ERROR] " \o s}

\* whether the lines printed say why source s was not loaded
IsExplained(s) == \E i \in 1..Len(log) : log[i] \in LinesOfFailure(s)

\* the steps of main that have run, from what the run has produced
StepsRun ==
    (IF pc \in {"start"} THEN {} ELSE {"load"})
    \cup (IF pc \in {"start", "loaded", "stopped"} THEN {} ELSE {"merge"})
    \cup (IF pc \in {"compared"} \/ NvaDone THEN {"compare"} ELSE {})
    \cup (IF NvaDone THEN {"name-vs-attributes"} ELSE {})
    \cup (IF {"comparison_report.xlsx", "comparison_report.html"} \subseteq reports
          THEN {"reports"} ELSE {})
    \cup (IF GridDone THEN {"grid"} ELSE {})

\* main stops with fewer than two sources: nothing but the load has run, no
\* table and no file is there, and every source that is not loaded has its
\* line
C18_StopsWithTooFewSources ==
    /\ Cardinality(DOMAIN sources) < 2 => pc \in {"start", "loaded", "stopped"}
    /\ pc = "stopped" =>
           /\ Cardinality(DOMAIN sources) < 2
           /\ StepsRun = {"load"}
           /\ merged = None /\ missing = None /\ price_differences = None
           /\ name_differences = None /\ attribute_differences = None
           /\ name_vs_attrs = None /\ grids = None /\ reports = {}
           /\ \A s \in SourceSet \ DOMAIN sources : IsExplained(s)

\* the steps run in the order load, compare, name-vs-attributes, reports, grid
C18_StepsInOrder ==
    /\ "grid" \in StepsRun => "reports" \in StepsRun
    /\ reports # {} => "name-vs-attributes" \in StepsRun
    /\ "name-vs-attributes" \in StepsRun => "compare" \in StepsRun
    /\ "merge" \in StepsRun => "load" \in StepsRun /\ Cardinality(DOMAIN sources) >= 2

\* C18: with fewer than two sources loaded main stops before any merge,
\* detector, report or grid step and leaves no table, and the lines it
\* printed say for every source why it was not loaded; with two or more
\* sources loaded the steps run in the order load, compare,
\* name-vs-attributes, reports, grid, and no run is cut short before its last
\* step.
C18_StopsOrRunsEveryStep ==
    /\ C18_StopsWithTooFewSources
    /\ C18_StepsInOrder
    /\ pc # "raised"

\* a run with two sources loaded that ends inside compare_all
C18_CutShort ==
    /\ pc = "raised"
    /\ DOMAIN sources = {"zoho", "google"}
    /\ files.website.cond = "unreadable"
    /\ reports = {}


---------------------------------------------------------------------------
(* grid_view.build_grid on one cell: the status of the four values of one  *)
(* column of one product                                                   *)

V_8_in == Chars("8") \o <<"\"">>

\* labels of columns: one the title may carry, two of DATA_ONLY_ATTRS
CellAttrPool == {L_Bucket_Size, Chars("Drain Holes"), Chars("Product Weight (lbs)")}

\* the values of a cell: none, numbers, a size, an inch mark alone, and the
\* text of an empty cell of the website export
CellValuePool == {EmptyText, V_8, V_10, V_8_in, V_quote, NanText}

InitCell ==
    /\ cell_attr \in CellAttrPool
    /\ cell_vals \in {<<n, z, w, g>> : n \in CellValuePool, z \in CellValuePool,
                                       w \in CellValuePool, g \in CellValuePool}
    /\ cell_status = None
    /\ cell_pc = "start"
    /\ NormIdle /\ MatchIdle /\ WeightIdle /\ NameIdle /\ CompareIdle

\* grid_view.py lines 224-236 for the values of one cell
BuildCell ==
    /\ cell_pc = "start"
    /\ cell_status' = CellStatus(cell_attr, cell_vals[1], cell_vals[2], cell_vals[3], cell_vals[4])
    /\ cell_pc' = "done"
    /\ UNCHANGED <<cell_attr, cell_vals>>
    /\ UNCHANGED <<normVars, matchVars, weightVars, nameVars, compareVars, runVars>>

NextCell == BuildCell

SpecCell == InitCell /\ [][NextCell]_vars

CellDone == cell_pc = "done"

\* the values of the cell that are not empty, the name's among them or not
ValuesHeld(with_name) ==
    SelectSeq(IF with_name THEN cell_vals ELSE Tail(cell_vals), LAMBDA v : v # EmptyText)

\* the verdicts over the pairs of two different values of the cell
PairVerdictsOver(vals) ==
    {_match_value(vals[p[1]], vals[p[2]]) :
        p \in {q \in (1..Len(vals)) \X (1..Len(vals)) : q[1] < q[2]}}

\* C15: for an attribute that is not data-only the status of a grid cell is
\* empty when none of the four values (name, zoho, website, google) is
\* non-empty, PARTIAL when exactly one is, OK when at least two are and they
\* agree under the Equivalence Resolver, and MISMATCH only when at least two
\* are non-empty and some pair of them gets the verdict Mismatch.
C15_CellStatus ==
    (CellDone /\ cell_attr \notin DATA_ONLY_ATTRS) =>
        \A vals \in {ValuesHeld(TRUE)} :
            /\ Len(vals) = 0 => cell_status = ""
            /\ Len(vals) = 1 => cell_status = "PARTIAL"
            /\ (Len(vals) >= 2 /\ PairVerdictsOver(vals) = {Match}) => cell_status = "OK"
            /\ cell_status = "MISMATCH" =>
                   Len(vals) >= 2 /\ Mismatch \in PairVerdictsOver(vals)

\* a cell MISMATCH whose pairs have no Mismatch verdict: one pair cannot be
\* compared
C15_MismatchWithoutMismatch ==
    /\ CellDone /\ cell_attr \notin DATA_ONLY_ATTRS
    /\ cell_status = "MISMATCH"
    /\ PairVerdictsOver(ValuesHeld(TRUE)) = {Incomparable}

\* what holds of the cell of an attribute that is not data-only: MISMATCH
\* also where a pair cannot be compared
C15_CellStatusOfCode ==
    (CellDone /\ cell_attr \notin DATA_ONLY_ATTRS) =>
        \A vals \in {ValuesHeld(TRUE)} :
            cell_status = IF Len(vals) = 0 THEN ""
                          ELSE IF Len(vals) = 1 THEN "PARTIAL"
                          ELSE IF PairVerdictsOver(vals) \subseteq {Match} THEN "OK"
                          ELSE "MISMATCH"

\* C19: for an attribute of DATA_ONLY_ATTRS the status of a grid cell depends
\* on the zoho, website and google values only: the cell with any other
\* name-extracted value has the same status, and the status is not PARTIAL
\* when at least two of the three sources have a value.
C19_DataOnlyIgnoresName ==
    (CellDone /\ cell_attr \in DATA_ONLY_ATTRS) =>
        /\ \A n \in CellValuePool :
               CellStatus(cell_attr, n, cell_vals[2], cell_vals[3], cell_vals[4]) = cell_status
        /\ Len(ValuesHeld(FALSE)) >= 2 => cell_status # "PARTIAL"
        /\ Len(ValuesHeld(FALSE)) = 0 => cell_status = ""

\* a data-only cell with a value from the title and from one source only:
\* PARTIAL as without the title's value
C19_Witness ==
    /\ CellDone /\ cell_attr \in DATA_ONLY_ATTRS
    /\ cell_vals[1] # EmptyText
    /\ Len(ValuesHeld(FALSE)) = 1
    /\ cell_status = "PARTIAL"

\* a data-only cell whose title value disagrees with two sources that agree
C19_WitnessTwoSources ==
    /\ CellDone /\ cell_attr \in DATA_ONLY_ATTRS
    /\ cell_vals = <<V_10, V_8, V_8_in, EmptyText>>
    /\ cell_status = "OK"


---------------------------------------------------------------------------
(* Properties of a run of main: the grids                                  *)

\* the four values of a cell
CellValues(c) == {c.Name, c.Zoho, c.Web, c.Google}

\* the cells of column a in the rows of a grid
CellsOf(grid, a) ==
    {c \in UNION {SeqToSet(grid.data[i].cells) : i \in 1..Len(grid.data)} : c.attr = a}

\* the candidate columns of a grid: the columns its rows have cells for
CandidatesOf(grid) ==
    UNION {{grid.data[i].cells[k].attr : k \in 1..Len(grid.data[i].cells)} :
              i \in 1..Len(grid.data)}

C11_Witness ==
    /\ GridDone
    /\ \E cat \in DOMAIN grids :
           /\ grids[cat].attr_names # <<>>
           /\ CandidatesOf(grids[cat]) \ SeqToSet(grids[cat].attr_names) # {}

C11_WitnessNoRows ==
    /\ GridDone
    /\ \E cat \in DOMAIN grids : Len(grids[cat].data) = 0 /\ grids[cat].attr_names = <<>>

\* C16: the grid of a category of NO_BUCKET_SIZE has no "Bucket Size"
\* column, whatever labels the zoho, website and google attributes of the
\* products of the category have: the label is no column of the rows and is
\* not in attr_names.
C16_NoBucketSizeColumn ==
    GridDone =>
        \A cat \in DOMAIN grids \cap NO_BUCKET_SIZE :
            /\ BucketSizeLabel \notin CandidatesOf(grids[cat])
            /\ BucketSizeLabel \notin SeqToSet(grids[cat].attr_names)

\* whether a product has the very label "Bucket Size" among its attributes
\* in zoho, on the website or in the Google sheet
SomeSourceHasBucketSize ==
    \E attrs \in {_load_zoho_attrs(files.zoho_cache), WebAttrsOfRun, GoogleAttrsOfRun} :
        \E sku \in DOMAIN attrs : HasKey(attrs[sku], BucketSizeLabel)

\* a grid of such a category with the column, brought back by a label of a
\* source
C16_ColumnFromSourceLabel ==
    /\ GridDone
    /\ \E cat \in DOMAIN grids \cap NO_BUCKET_SIZE :
           BucketSizeLabel \in SeqToSet(grids[cat].attr_names)
    /\ SomeSourceHasBucketSize

\* without that label in a source the column stays away
C16_NoColumnWithoutSourceLabel ==
    GridDone =>
        \A cat \in DOMAIN grids \cap NO_BUCKET_SIZE :
            BucketSizeLabel \in CandidatesOf(grids[cat]) => SomeSourceHasBucketSize


---------------------------------------------------------------------------
(* Properties of the Equivalence Resolver: lists, containment, units       *)

MatchDone == mv_pc = "done"

\* the normalized parts of a second value that is a list separated by ','
CommaParts(actual) ==
    {_normalize_value(Strip(Split(actual, ",")[k])) : k \in 1..Len(Split(actual, ","))}

\* C21: when the second value is a comma-separated list and the first value
\* has no '|', _match_value gives Match whenever the normalized first value
\* (not empty) equals, or lies in a synonym set with, the normalized form of
\* one of the parts of the second value.
C21_CommaListMatches ==
    (/\ MatchDone
     /\ Contains(actual_val, <<",">>)
     /\ ~Contains(parsed_val, <<"|">>)
     /\ _normalize_value(parsed_val) # <<>>
     /\ \E part \in CommaParts(actual_val) :
            \/ part = _normalize_value(parsed_val)
            \/ InSameSynonymSet(_normalize_value(parsed_val), part))
    => match_result = Match

\* a list with a part equal to the first value, and Mismatch
C21_PartEqualAndMismatch ==
    /\ MatchDone
    /\ \/ parsed_val = <<"8">> /\ actual_val = <<"3", ",", "8">>
       \/ parsed_val = T_pin_on /\ actual_val = T_x_bolt_on_adapter
    /\ match_result = Mismatch

\* the normalized second value never holds a ',': line 395 never holds
C21_NoCommaAfterNormalize ==
    MatchDone => ~Contains(_normalize_value(actual_val), <<",">>)

\* one normalized form is a substring of the other
OneContainsOther(p, a) == Contains(a, p) \/ Contains(p, a)

\* lines 407-415: each form holds one number token, both are numbers, and
\* they differ by 0.1 or more
SingleNumbersDiffer(p, a) ==
    /\ Len(NumTokens(p)) = 1 /\ Len(NumTokens(a)) = 1
    /\ NumTokens(p) # NumTokens(a)
    /\ FloatOk(NumTokens(p)[1]) /\ FloatOk(NumTokens(a)[1])
    /\ ~NearlyEqual(Float(NumTokens(p)[1]), Float(NumTokens(a)[1]))

\* the case of the claim: both values normalize to a non-empty text, the
\* first has no '|', and one normalized form is a substring of the other
C22_Case ==
    /\ MatchDone
    /\ ~Contains(parsed_val, <<"|">>)
    /\ _normalize_value(parsed_val) # <<>>
    /\ _normalize_value(actual_val) # <<>>
    /\ OneContainsOther(_normalize_value(parsed_val), _normalize_value(actual_val))

\* C22 as stated: in that case _match_value gives Match, whatever the
\* numbers in the two values.
C22_ContainmentMatches == C22_Case => match_result = Match

\* C22: in that case _match_value gives Match, unless each form holds
\* exactly one number and the two numbers differ by 0.1 or more, and then it
\* gives Mismatch.
C22_ContainmentMatchesUnlessNumbersDiffer ==
    C22_Case =>
        match_result =
            IF SingleNumbersDiffer(_normalize_value(parsed_val), _normalize_value(actual_val))
            THEN Mismatch ELSE Match

\* Match by containment alone: the forms differ, no synonym set, the number
\* tokens differ
C22_Witness ==
    /\ C22_Case
    /\ _normalize_value(parsed_val) # _normalize_value(actual_val)
    /\ NumTokens(_normalize_value(parsed_val)) # <<>>
    /\ NumTokens(_normalize_value(actual_val)) # <<>>
    /\ NumTokens(_normalize_value(parsed_val)) # NumTokens(_normalize_value(actual_val))
    /\ match_result = Match

\* "3" against "30 mm": Mismatch
C22_WitnessThreeAndThirty ==
    /\ C22_Case
    /\ parsed_val = T_3 /\ actual_val = T_30_mm
    /\ match_result = Mismatch

\* the last word of a text: what follows its last whitespace character
LastWordOf(s) ==
    LET spaces == {i \in 1..Len(s) : IsSpace(s[i])}
    IN  IF spaces = {} THEN s ELSE SubSeq(s, SetMax(spaces) + 1, Len(s))

\* a word of letters only
IsLetterWord(w) ==
    w # <<>> /\ \A i \in 1..Len(w) : \E k \in 1..26 : LowerLetters[k] = w[i]

\* C23: _normalize_value strips a trailing unit only when the unit is the
\* final token: a value whose last word is a word of letters that is not
\* itself a unit (it may end in the letters of one) keeps that word, so the
\* normalized value ends with it.
C23_LastWordKept ==
    (/\ nv_pc # "start"
     /\ IsLetterWord(LastWordOf(Lower(Strip(nv_val))))
     /\ LastWordOf(Lower(Strip(nv_val))) \notin Units)
    => EndsWith(nv_once, LastWordOf(Lower(Strip(nv_val))))

\* "min" loses its last two letters
C23_WordCut ==
    /\ nv_pc # "start"
    /\ nv_val = <<"m", "i", "n">>
    /\ nv_once = <<"m">>

\* a unit that is the final token is stripped: "5 mm" gives "5"
C23_UnitTokenStripped ==
    (nv_pc # "start" /\ nv_val = <<"5", " ", "m", "m">>) => nv_once = <<"5">>


---------------------------------------------------------------------------
(* Properties of the ordered pattern lists of parse_name                   *)

NameDone == pn_pc = "done"

\* the indices of the coupler patterns that match the title parse_name reads
CouplerHits(title) ==
    {k \in 1..Len(coupler_patterns) : CouplerMatches(Strip(title), coupler_patterns[k])}

\* the indices of the type patterns that match the title parse_name reads
TypeHits(title) ==
    {k \in 1..Len(type_patterns) : TypeMatches(Lower(Strip(title)), type_patterns[k])}

\* C25: "Coupler Type" is the name of the first pattern of the coupler list,
\* in list order, that matches the title; with no such pattern it is "Pin On"
\* when a "Pin Size" was extracted and unset otherwise; so every result with
\* a "Pin Size" has a "Coupler Type".
C25_CouplerFirstMatchOrPinOn ==
    NameDone =>
        \E hits \in {CouplerHits(pn_title)} :
            /\ \A k \in hits :
                   (\A j \in hits : k <= j) =>
                       /\ pn_attrs["Coupler Type"] # None
                       /\ pn_attrs["Coupler Type"] = coupler_patterns[k].name
            /\ (hits = {} /\ pn_attrs["Pin Size"] # None) =>
                   /\ pn_attrs["Coupler Type"] # None
                   /\ pn_attrs["Coupler Type"] = Chars("Pin On")
            /\ (hits = {} /\ pn_attrs["Pin Size"] = None) =>
                   pn_attrs["Coupler Type"] = None
            /\ pn_attrs["Pin Size"] # None => pn_attrs["Coupler Type"] # None

\* a title that two coupler patterns match, the later one of the list first
\* in the title
C25_Witness ==
    /\ NameDone
    /\ Cardinality(CouplerHits(pn_title)) = 2
    /\ pn_attrs["Pin Size"] # None
    /\ pn_attrs["Coupler Type"] # None
    /\ pn_attrs["Coupler Type"] = Chars("Cat Pin Grabber Coupler")

\* a title with a pin size and no coupler pattern
C25_WitnessPinOn ==
    /\ NameDone
    /\ CouplerHits(pn_title) = {}
    /\ pn_attrs["Pin Size"] # None
    /\ pn_attrs["Coupler Type"] # None
    /\ pn_attrs["Coupler Type"] = Chars("Pin On")

\* C28: "Product Type" is the name of the lowest-indexed pattern of the type
\* list that matches the title and is unset when none matches; it is never
\* "Rock Auger Bit", because a title that pattern matches is matched by the
\* earlier "Auger Bit" pattern too.
C28_TypeFirstMatchNeverRockAuger ==
    NameDone =>
        \E hits \in {TypeHits(pn_title)} :
            /\ \A k \in hits :
                   (\A j \in hits : k <= j) =>
                       /\ pn_attrs["Product Type"] # None
                       /\ pn_attrs["Product Type"] = type_patterns[k].name
            /\ hits = {} => pn_attrs["Product Type"] = None
            /\ \/ pn_attrs["Product Type"] = None
               \/ pn_attrs["Product Type"] # Chars("Rock Auger Bit")
            /\ \A k \in hits :
                   type_patterns[k].name = Chars("Rock Auger Bit") =>
                       \E j \in hits : j < k /\ type_patterns[j].name = Chars("Auger Bit")

\* the title "Rock Auger Bit" has been parsed: two patterns match it
C28_Witness ==
    /\ NameDone
    /\ pn_title = T_Rock_Auger_Bit
    /\ Cardinality(TypeHits(pn_title)) = 2
    /\ pn_attrs["Product Type"] # None
    /\ pn_attrs["Product Type"] = Chars("Auger Bit")

\* a title whose later words are matched by the earlier pattern
C28_WitnessListOrder ==
    /\ NameDone
    /\ pn_title = T_Tooth_Pin_Ditching_Bucket
    /\ pn_attrs["Product Type"] # None
    /\ pn_attrs["Product Type"] = Chars("Ditching Bucket")


---------------------------------------------------------------------------
(* find_attribute_differences over the weights and dimensions of a product *)
(*                                                                         *)
(* Product A is held by any of the three places with any of the texts      *)
(* below; product B is an item of Zoho alone.  On these texts the          *)
(* differences, the comparisons and round() in doubles are those of the    *)
(* exact arithmetic of DiffOver.                                           *)

\* weight_with_unit and dimensions_with_unit of the item of A
ZohoWeightPool == {Chars("10 kg"), Chars("0 kg"), EmptyText}
ZohoDimensionPool == {EmptyText, Chars("48 x 40 x 30 in"), Chars("48.6 x 40 x 0")}

\* the cell 'Weight (lbs)' of the website row of A (None: an empty cell)
WebWeightPool == <<Chars("22.05"), Chars("22.5"), Chars("0"), None>>

\* the cells of the Google row of A: 'Weight (lb)', the shipping weight and
\* the three sides
GoogleWeightPool == <<Chars("22.56"), Chars("0.00"), None>>
GoogleShippingPool == <<<<Entry(Chars("Shipping Weight (lb)/NA"), Chars("22.05"))>>,
                        <<Entry(Chars("Shipping Weight (lb)"), Chars("30 lb"))>>,
                        <<>>>>
GoogleSidesPool ==
    <<<<Entry(Chars("Shipping Length (in)"), Chars("48")),
        Entry(Chars("Shipping Width (in)"), Chars("40.6")),
        Entry(Chars("Shipping Height (in)"), Chars("0.6"))>>,
      <<Entry(Chars("Shipping Length (in)"), Chars("48")),
        Entry(Chars("Shipping Width (in)"), None),
        Entry(Chars("Shipping Height (in)"), Chars("30"))>>>>

AttrItem(sku, weight, dimensions) ==
    [ItemOf(<<Ex_Product>>, 1) EXCEPT !.sku = sku, !.weight_with_unit = weight,
                                      !.dimensions_with_unit = dimensions]

AttrLoaded(sku) == SourceRow(sku, N_Bucket, <<100000>>, NaN, "Buckets", "")

\* the files of a run: zoho holds B and, with z = <<weight, dimensions>>, A;
\* the website export and the Google workbook are there when they hold A,
\* with w = <<weight>> and g = <<columns>>; with api "fails" Zoho is loaded
\* from its CSV export and no cache exists
AttrFiles(api, z, w, g) ==
    LET held == IF z = <<>> THEN <<"B">> ELSE <<"A", "B">>
        items == IF z = <<>> THEN <<AttrItem("B", Chars("10 kg"), EmptyText)>>
                 ELSE <<AttrItem("A", z[1], z[2]), AttrItem("B", Chars("10 kg"), EmptyText)>>
        loaded == [n \in 1..Len(held) |-> AttrLoaded(held[n])]
    IN  [zoho_api |-> IF api = "ok" THEN File("ok", loaded, items) ELSE File("fails", <<>>, <<>>),
         zoho_cache |-> NoFile,
         zoho_csv |-> IF api = "ok" THEN NoFile ELSE File("ok", loaded, <<>>),
         website |-> IF w = <<>> THEN NoFile
                     ELSE File("ok", <<AttrLoaded("A")>>,
                               <<[sku |-> "A", attributes |-> <<>>, weight |-> w[1]]>>),
         google |-> IF g = <<>> THEN NoFile
                    ELSE File("xlsx", <<AttrLoaded("A")>>, <<[sku |-> "A", columns |-> g[1]]>>)]

InitAttr ==
    /\ \E api \in ZohoApiConds :
       \E z \in {<<>>} \cup (ZohoWeightPool \X ZohoDimensionPool) :
       \E wi \in 0..Len(WebWeightPool) :
       \E gi \in 0..Len(GoogleWeightPool) :
       \E si \in 1..Len(GoogleShippingPool) :
       \E di \in 1..Len(GoogleSidesPool) :
           /\ gi = 0 => si = 1 /\ di = 1
           /\ files = AttrFiles(api, z,
                  IF wi = 0 THEN <<>> ELSE <<WebWeightPool[wi]>>,
                  IF gi = 0 THEN <<>>
                  ELSE <<<<Entry(Chars("Weight (lb)"), GoogleWeightPool[gi])>>
                         \o GoogleShippingPool[si] \o GoogleSidesPool[di]>>)
    /\ MainStart

\* main.py line 21 and compare_all, comparator.py lines 388-416
NextAttr ==
    \/ MainLoadAll
    \/ MainTooFewSources
    \/ MergeBySku
    \/ FindMissing
    \/ FindPriceDifferences
    \/ FindNameDifferences
    \/ FindAttributeDifferences

SpecAttr == InitAttr /\ [][NextAttr]_vars


\* find_attribute_differences has returned
AttrDone == pc = "compared"

\* the dicts of the readers of lines 212-214
RawAttrsOf(f) ==
    [zoho |-> _load_zoho_raw_attrs(f.zoho_cache),
     website |-> _load_website_raw_attrs(f.website),
     google |-> _load_google_raw_attrs(f.google)]

WeightAttributes == {"Weight (lb)", "Shipping Weight (lb)"}
SideAttributes == {"Shipping Length (in)", "Shipping Width (in)", "Shipping Height (in)"}

\* the key of each source's dict that holds the attribute
RawKeyOf(attribute) ==
    CASE attribute = "Weight (lb)" ->
             [zoho |-> "weight", website |-> "weight", google |-> "weight_lb"]
      [] attribute = "Shipping Weight (lb)" ->
             [zoho |-> "shipping_weight", google |-> "shipping_weight_lb"]
      [] OTHER -> [zoho |-> "dimensions", google |-> "dimensions"]

\* the position of a side among the numbers of a dimensions text
SideIndex(attribute) ==
    CASE attribute = "Shipping Length (in)" -> 1
      [] attribute = "Shipping Width (in)"  -> 2
      [] OTHER                              -> 3

\* the parsed value of a text for the attribute: None or <<hundredths>>
ParsedFor(attribute, text) ==
    IF attribute \in WeightAttributes THEN _parse_weight(text)
    ELSE IF _parse_dimensions(text) = None THEN None
    ELSE <<_parse_dimensions(text)[SideIndex(attribute)]>>

\* the values of the attribute that the sources in which the product of the
\* merged row is present yield, by source
ParsedValues(row, attribute) ==
    LET texts == RawOf({s \in DOMAIN sources : row.cell[s].in}, row.sku,
                       RawAttrsOf(files), RawKeyOf(attribute))
    IN  [s \in {u \in DOMAIN texts : ParsedFor(attribute, texts[u]) # None} |->
            ParsedFor(attribute, texts[s])[1]]

\* the same without the weights that are 0
KeptValues(row, attribute) ==
    LET vals == ParsedValues(row, attribute)
    IN  [s \in {u \in DOMAIN vals : attribute \in WeightAttributes => vals[u] # 0} |-> vals[s]]

\* the rows of the result for an identifier and an attribute
DiffRowsOf(sku, attribute) ==
    {k \in DOMAIN attribute_differences :
        /\ attribute_differences[k].sku = sku
        /\ attribute_differences[k].attribute = attribute}

\* max - min over the values of two or more sources, in hundredths
SpreadOf(vals) == SetMax({vals[s] : s \in DOMAIN vals}) - SetMin({vals[s] : s \in DOMAIN vals})

\* whether the result has for the merged row and the attribute one row with
\* the spread of vals when two or more sources have a value in vals and the
\* spread is over 0.5, and no row otherwise
RowIffSpreadOver(row, attribute, vals) ==
    IF Cardinality(DOMAIN vals) >= 2 /\ SpreadOf(vals) > 50
    THEN /\ Cardinality(DiffRowsOf(row.sku, attribute)) = 1
         /\ \A k \in DiffRowsOf(row.sku, attribute) :
                attribute_differences[k].diff = SpreadOf(vals)
    ELSE DiffRowsOf(row.sku, attribute) = {}

\* C24: find_attribute_differences has one row for an identifier and an
\* attribute exactly when two or more sources in which the product is present
\* yield a parsed value for the attribute (a weight, a shipping weight, or a
\* side taken by position from the first three numbers) and max - min of
\* these values is over 0.5; the diff of the row is that spread; a product
\* present in fewer than two sources has no rows.
C24_RowIffParsedSpreadOver ==
    AttrDone =>
        \A i \in DOMAIN merged : \A attribute \in WeightAttributes \cup SideAttributes :
            /\ RowIffSpreadOver(merged[i], attribute, ParsedValues(merged[i], attribute))
            /\ Cardinality({s \in DOMAIN sources : merged[i].cell[s].in}) < 2 =>
                   DiffRowsOf(merged[i].sku, attribute) = {}

\* what the code does: the same with the weights of 0 left out (for the
\* three sides a 0 counts)
C24_RowIffKeptSpreadOver ==
    AttrDone =>
        \A i \in DOMAIN merged : \A attribute \in WeightAttributes \cup SideAttributes :
            /\ RowIffSpreadOver(merged[i], attribute, KeptValues(merged[i], attribute))
            /\ Cardinality({s \in DOMAIN sources : merged[i].cell[s].in}) < 2 =>
                   DiffRowsOf(merged[i].sku, attribute) = {}

\* a run with a row for a weight and a row for a side, and an attribute
\* whose values are within the tolerance
C24_Witness ==
    /\ AttrDone
    /\ \E i \in DOMAIN merged :
           /\ DiffRowsOf(merged[i].sku, "Weight (lb)") # {}
           /\ DiffRowsOf(merged[i].sku, "Shipping Width (in)") # {}
           /\ DiffRowsOf(merged[i].sku, "Shipping Length (in)") = {}
           /\ Cardinality(DOMAIN KeptValues(merged[i], "Shipping Length (in)")) = 2

\* two weights, one of them 0, more than 0.5 apart, and no row
C24_WitnessZeroWeight ==
    /\ AttrDone
    /\ \E i \in DOMAIN merged :
           /\ Cardinality(DOMAIN ParsedValues(merged[i], "Weight (lb)")) = 2
           /\ SpreadOf(ParsedValues(merged[i], "Weight (lb)")) > 50
           /\ DiffRowsOf(merged[i].sku, "Weight (lb)") = {}

\* C29: a weight or shipping weight that parses to 0 is handled like one
\* that does not parse: its source has no value in a row of the attribute,
\* the spread is that of the other sources' weights, and with fewer than two
\* other weights the product has no row for the attribute.
C29_ZeroWeightLeftOut ==
    AttrDone =>
        \A i \in DOMAIN merged : \A attribute \in WeightAttributes :
            \A s \in DOMAIN ParsedValues(merged[i], attribute) :
                ParsedValues(merged[i], attribute)[s] = 0 =>
                    \E others \in {[u \in DOMAIN ParsedValues(merged[i], attribute) \ {s} |->
                                       ParsedValues(merged[i], attribute)[u]]} :
                        /\ \A k \in DiffRowsOf(merged[i].sku, attribute) :
                               /\ attribute_differences[k].value[s] = <<>>
                               /\ Cardinality(DOMAIN others) >= 2
                               /\ attribute_differences[k].diff = SpreadOf(KeptValues(merged[i], attribute))
                        /\ Cardinality(DOMAIN others) < 2 =>
                               DiffRowsOf(merged[i].sku, attribute) = {}

\* a weight of 0 and one other source with a weight: no row
C29_Witness ==
    /\ AttrDone
    /\ \E i \in DOMAIN merged :
           /\ DOMAIN ParsedValues(merged[i], "Weight (lb)") = {"zoho", "website"}
           /\ ParsedValues(merged[i], "Weight (lb)")["zoho"] = 0
           /\ ParsedValues(merged[i], "Weight (lb)")["website"] > 50
           /\ DiffRowsOf(merged[i].sku, "Weight (lb)") = {}

\* a weight of 0 and two other sources whose weights differ: a row without
\* the value of the source with 0
C29_WitnessOthersCompared ==
    /\ AttrDone
    /\ \E i \in DOMAIN merged :
           /\ DOMAIN ParsedValues(merged[i], "Weight (lb)") = {"zoho", "website", "google"}
           /\ ParsedValues(merged[i], "Weight (lb)")["zoho"] = 0
           /\ \E k \in DiffRowsOf(merged[i].sku, "Weight (lb)") :
                  /\ attribute_differences[k].value["zoho"] = <<>>
                  /\ attribute_differences[k].diff = 51


---------------------------------------------------------------------------
(* Properties of the raw-data cache, the detectors and load_all            *)

\* zoho_api_cache.json after load_zoho fetched the items of the API
WrittenCache(f) == File("ok", <<>>, f.zoho_api.rows)

\* a step that changes zoho_api_cache.json is the step of load_all, before
\* any reader has run, it writes all the items fetched and nothing else, and
\* no step leads back to the start of the run
CacheWrittenByLoadOnly ==
    /\ pc' # "start"
    /\ files'.zoho_cache # files.zoho_cache =>
           /\ pc = "start"
           /\ files'.zoho_cache = WrittenCache(files)

\* the run's load of the Zoho API fetched its items
ZohoApiAnswered == files.zoho_api.cond \in {"ok", "empty"}

C26_WitnessStale ==
    /\ pc = "done"
    /\ files.zoho_api.cond = "fails"
    /\ files.zoho_cache.cond = "ok"
    /\ files.zoho_cache.rows = StaleItems


---------------------------------------------------------------------------
(* compare_all with its four detectors in any order                        *)
(*                                                                         *)
(* Zoho holds A and B, the website and Google hold A under any of two      *)
(* names, prices and weights, so that every detector has rows to report.   *)

N_Buckets == N_Bucket \o <<"s">>

OrderFiles(wname, wprice, gi, ggl) ==
    LET f == AttrFiles("ok", <<Chars("10 kg"), EmptyText>>, <<Chars("22.05")>>,
                       <<<<Entry(Chars("Weight (lb)"), GoogleWeightPool[gi])>>>>)
    IN  [f EXCEPT !.website.loaded = <<SourceRow("A", wname, wprice, NaN, "Buckets", "")>>,
                  !.google.cond = ggl]

InitOrder ==
    /\ \E wname \in {N_Bucket, N_Buckets} :
       \E wprice \in {<<100000>>, <<105000>>} :
       \E gi \in 1..Len(GoogleWeightPool) :
       \E ggl \in {"xlsx", "csv"} :
           files = OrderFiles(wname, wprice, gi, ggl)
    /\ MainStart

\* comparator.py lines 398, 401, 404, 407: the line compare_all prints after
\* each detector
PrintedAfter ==
    [missing |-> "Products with gaps", price |-> "Price discrepancies",
     name |-> "Name discrepancies", attribute |-> "Attribute discrepancies"]

\* the detectors of compare_all that have returned
DetectorsRun == {d \in DOMAIN PrintedAfter : \E i \in 1..Len(log) : log[i] = PrintedAfter[d]}

\* comparator.py lines 397-398, at any place among the detectors
AnyOrderFindMissing ==
    /\ pc = "merged" /\ "missing" \notin DetectorsRun
    /\ missing' = find_missing(merged, sources)
    /\ log' = Append(log, PrintedAfter["missing"])
    /\ merged' = LeftByDetector(merged) /\ sources' = LeftByDetector(sources)
    /\ UNCHANGED <<config, price_differences, name_differences, pc>>
    /\ UNCHANGED <<files, attribute_differences, name_vs_attrs, reports, grids>>
    /\ UNCHANGED <<normVars, matchVars, weightVars, nameVars, cellVars>>

\* comparator.py lines 400-401, at any place among the detectors
AnyOrderFindPriceDifferences ==
    /\ pc = "merged" /\ "price" \notin DetectorsRun
    /\ price_differences' = find_price_differences(merged, sources, config)
    /\ log' = Append(log, PrintedAfter["price"])
    /\ merged' = LeftByDetector(merged) /\ sources' = LeftByDetector(sources)
    /\ UNCHANGED <<config, missing, name_differences, pc>>
    /\ UNCHANGED <<files, attribute_differences, name_vs_attrs, reports, grids>>
    /\ UNCHANGED <<normVars, matchVars, weightVars, nameVars, cellVars>>

\* comparator.py lines 403-404, at any place among the detectors
AnyOrderFindNameDifferences ==
    /\ pc = "merged" /\ "name" \notin DetectorsRun
    /\ name_differences' = find_name_differences(merged, sources, config)
    /\ log' = Append(log, PrintedAfter["name"])
    /\ merged' = LeftByDetector(merged) /\ sources' = LeftByDetector(sources)
    /\ UNCHANGED <<config, missing, price_differences, pc>>
    /\ UNCHANGED <<files, attribute_differences, name_vs_attrs, reports, grids>>
    /\ UNCHANGED <<normVars, matchVars, weightVars, nameVars, cellVars>>

\* comparator.py lines 406-407, at any place among the detectors; an exception
\* of its readers ends compare_all wherever it stands
AnyOrderFindAttributeDifferences ==
    /\ pc = "merged" /\ "attribute" \notin DetectorsRun
    /\ \E r \in {find_attribute_differences(merged, sources, files)} :
           IF r.raised
           THEN pc' = "raised" /\ UNCHANGED <<attribute_differences, log>>
           ELSE /\ pc' = pc /\ attribute_differences' = r.rows
                /\ log' = Append(log, PrintedAfter["attribute"])
    /\ merged' = LeftByDetector(merged) /\ sources' = LeftByDetector(sources)
    /\ UNCHANGED <<config, missing, price_differences, name_differences>>
    /\ UNCHANGED <<files, name_vs_attrs, reports, grids>>
    /\ UNCHANGED <<normVars, matchVars, weightVars, nameVars, cellVars>>

\* comparator.py lines 409-416: compare_all returns the tables
CompareAllReturns ==
    /\ pc = "merged"
    /\ DetectorsRun = DOMAIN PrintedAfter
    /\ pc' = "compared"
    /\ UNCHANGED <<sources, config, merged, missing, price_differences, name_differences>>
    /\ UNCHANGED <<normVars, matchVars, weightVars, nameVars, runVars, cellVars>>

NextOrder ==
    \/ MainLoadAll
    \/ MergeBySku
    \/ AnyOrderFindMissing
    \/ AnyOrderFindPriceDifferences
    \/ AnyOrderFindNameDifferences
    \/ AnyOrderFindAttributeDifferences
    \/ CompareAllReturns

SpecOrder == InitOrder /\ [][NextOrder]_vars

\* a step of a detector leaves the merged table and the sources as they are
DetectorFrame == pc = "merged" => merged' = merged /\ sources' = sources

C27_Witness ==
    /\ pc = "merged"
    /\ DetectorsRun = {"attribute", "price", "name"}
    /\ attribute_differences # <<>>
    /\ price_differences # <<>>
    /\ name_differences # <<>>
    /\ find_missing(merged, sources) # <<>>

---------------------------------------------------------------------------
(* C30: load_all catches every failure of a loader                         *)

\* the lines load_all prints for each step of lines 238-271
ApiLines == {"[OK] zoho (API)", "[WARN] zoho API"}
FallbackLines == {"[OK] zoho (CSV)", "[ERROR] zoho CSV"}
ZohoLines == ApiLines \cup FallbackLines \cup {"[SKIP] zoho"}
WebsiteLines == {"[OK] website", "[ERROR] website", "[SKIP] website"}
GoogleLines == {"[OK] google", "[ERROR] google", "[SKIP] google"}

\* the places of the printed lines that are in Lines
PlacesOf(Lines) == {i \in 1..Len(log) : log[i] \in Lines}

Printed(line) == \E i \in 1..Len(log) : log[i] = line

\* the API load, or else the fallback, returned the products
ZohoLoadSucceeded ==
    \/ files.zoho_api.cond = "ok"
    \/ files.zoho_api.cond # "ok" /\ files.zoho_csv.cond = "ok"

\* every source is attempted once, zoho before website before google,
\* whatever happened to the ones before it
AttemptedInOrder ==
    /\ Cardinality(PlacesOf(ApiLines)) = 1
    /\ Cardinality(PlacesOf(WebsiteLines)) = 1
    /\ Cardinality(PlacesOf(GoogleLines)) = 1
    /\ \A i \in PlacesOf(ZohoLines) : \A j \in PlacesOf(WebsiteLines) : i < j
    /\ \A i \in PlacesOf(WebsiteLines) : \A j \in PlacesOf(GoogleLines) : i < j
    /\ \A i \in PlacesOf(ApiLines) : \A j \in PlacesOf(ZohoLines \ ApiLines) : i < j

\* a source is in the map iff its load succeeded
FailedSourcesLeftOut ==
    /\ "zoho" \in DOMAIN sources <=> ZohoLoadSucceeded
    /\ "website" \in DOMAIN sources <=> files.website.cond = "ok"
    /\ "google" \in DOMAIN sources <=> files.google.cond \in {"xlsx", "csv"}
    /\ "website" \in DOMAIN sources <=> Printed("[OK] website")
    /\ "google" \in DOMAIN sources <=> Printed("[OK] google")
    /\ "zoho" \in DOMAIN sources <=> Printed("[OK] zoho (API)") \/ Printed("[OK] zoho (CSV)")
    /\ DOMAIN sources \subseteq SourceSet

\* the fallback is tried only after the API load failed and only when the
\* CSV export is there
FallbackOnlyAfterFailure ==
    /\ PlacesOf(FallbackLines) # {} =>
           /\ Printed("[WARN] zoho API")
           /\ files.zoho_api.cond # "ok"
           /\ files.zoho_csv.cond # "absent"
    /\ Printed("[SKIP] zoho") =>
           files.zoho_api.cond # "ok" /\ files.zoho_csv.cond = "absent"
    /\ Cardinality(PlacesOf(ZohoLines \ ApiLines)) <= 1

\* C30: load_all never raises: main goes on from line 21 with the map it
\* returns; a source whose load failed is left out of the map and the
\* sources after it are still attempted, in the order zoho, website, google;
\* the Zoho CSV fallback is attempted only after the API load has failed and
\* only if the CSV file exists, and zoho is in the map iff the API load or
\* the fallback succeeded
C30_LoadAllNeverRaises ==
    /\ [][pc = "start" => pc' = "loaded"]_vars
    /\ [](pc # "start" =>
              AttemptedInOrder /\ FailedSourcesLeftOut /\ FallbackOnlyAfterFailure)

\* the API fails, the CSV export is read instead, the website file cannot be
\* read and the Google file is loaded after it
C30_Witness ==
    /\ pc = "loaded"
    /\ files.zoho_api.cond = "fails" /\ files.zoho_csv.cond = "ok"
    /\ files.website.cond = "unreadable" /\ files.google.cond = "xlsx"
    /\ DOMAIN sources = {"zoho", "google"}
    /\ log = <<"[WARN] zoho API", "[OK] zoho (CSV)", "[ERROR] website", "[OK] google">>

\* nothing loads and load_all still returns, with an empty map
C30_WitnessNothingLoads ==
    /\ pc = "loaded"
    /\ files.zoho_api.cond = "fails" /\ files.zoho_csv.cond = "unreadable"
    /\ files.website.cond = "no_columns" /\ files.google.cond = "unreadable"
    /\ DOMAIN sources = {}


====
